---- MODULE Spec2Model ----
(***************************************************************************)
(* A model of the HyProxy handler package: the handler chain               *)
(* (internal/handler/handler.go), the handler registry and BuildChain, the *)
(* session life cycle the demultiplexer drives through the chain, and the  *)
(* terminator handler with its DCID tracker and one-shot backend registry  *)
(* (internal/handler/terminator.go).                                       *)
(***************************************************************************)
EXTENDS Integers, Sequences, FiniteSets, TLC

VARIABLES
    \* ---- handler chain (handler.go) ----
    handlers,   \* backing array of Chain.handlers: a sequence of handler ids
    built,      \* NewChain has run
    aliases,    \* slices the caller holds that share the chain's backing array
    mock,       \* mockHandler flags, per handler id
    last,       \* the last chain invocation: hook, calls made, result
    \* ---- registry and BuildChain ----
    registry,   \* registered type name -> factory
    configs,    \* the []HandlerConfig handed to BuildChain
    build,      \* BuildChain's outcome and the factories it invoked
    \* ---- sessions of the demultiplexer ----
    sess,       \* session id -> state, key, packets seen, hook log
    stopped,    \* the proxy has shut down
    \* ---- terminator (terminator.go) and DCID tracker ----
    backends,   \* TerminatorHandler.backends: DCID (hex) -> backend address
    owner,      \* for each entry of backends, the session whose OnConnect stored it
    byAddr,     \* dcidTracker.byAddr: remote address -> DCID (hex)
    conn,       \* per client connection: its Context and forwarder socket
    task,       \* per client connection: its handleConnection goroutine
    sessions,   \* TerminatorHandler.sessions: the session ids stored
    sessionCount, \* TerminatorHandler.sessionCount
    \* ---- DCID tracker on its own ----
    reads,      \* remote address -> datagrams read since its entry was last deleted
    \* ---- TerminatorHandler.Shutdown ----
    shut,       \* the Shutdown call, the accept loop and the caller's context
    \* ---- framed packets (pkg/protohytale/packet.go) ----
    wire,       \* bytes the writer emitted that the stream has not handed over yet
    sent,       \* every byte the writer emitted
    written,    \* the packets handed to PacketWriter.Write, in order
    pr,         \* PacketReader: buf[:buffered], len(buf), offset
    rp,         \* the ReadPacket call in progress
    got,        \* the packets ReadPacket returned, in order
    \* ---- codec primitives and packet parsers (pkg/protohytale) ----
    arg,        \* the byte slice handed to a reader or parser
    enc,        \* the value a writer encoded into arg, if any
    ret,        \* what the last reader or parser call returned
    \* ---- Context (typed key-value map of a session) ----
    values,     \* Context: key -> typed value
    sets,       \* the Set calls made so far, in order
    \* ---- the demultiplexer's receive loop and idle scan ----
    now,        \* the monotonic clock, in ticks
    lastActivity, \* session id -> time of the last datagram
    recv,       \* the last datagram received and what became of it
    \* ---- terminator sessions that Shutdown closed ----
    closedSessions, \* ids of the sessions on which Shutdown called Close
    \* ---- the PacketWriter and the streams it and the reader are set on ----
    pw,         \* PacketWriter: the Write call in progress, its stream
    pipe        \* the other stream, and what was lost or torn on each

chainVars == <<handlers, built, aliases, mock, last>>
buildVars == <<registry, configs, build>>
demuxVars == <<sess, stopped>>
termVars == <<backends, owner, byAddr, conn, task, sessions, sessionCount>>
trackVars == <<reads>>
shutVars == <<shut>>
codecVars == <<wire, sent, written, pr, rp, got>>
primVars == <<arg, enc, ret>>
ctxVars == <<values, sets>>
idleVars == <<now, lastActivity, recv>>
closeVars == <<closedSessions>>
pipeVars == <<pw, pipe>>
vars == <<handlers, built, aliases, mock, last, registry, configs, build,
          sess, stopped, backends, owner, byAddr, conn, task, sessions,
          sessionCount,
          reads,
          shut,
          wire, sent, written, pr, rp, got,
          arg, enc, ret,
          values, sets,
          now, lastActivity, recv,
          closedSessions,
          pw, pipe>>

(***************************************************************************)
(* Bounds of the model.                                                    *)
(***************************************************************************)
MaxChain == 2
NumHandlers == 3
MaxConfigs == 3
MaxSessions == 2
MaxPackets == 2
MaxConns == 2
NumAddrs == 2
MaxReads == 2
MaxFrames == 2
MaxInput == 6
MaxResets == 1
MaxSets == 3
MaxTime == 3

(***************************************************************************)
(* handler.go: Action, Result.                                             *)
(***************************************************************************)
Continue == 0
Handled == 1
Drop == 2

Actions == {Continue, Handled, Drop}
Errors == {"nil", "err"}
Result(a, e) == [Action |-> a, Error |-> e]
Results == [Action : Actions, Error : Errors]
NoResult == [Action |-> -1, Error |-> "nil"]

HandlerIds == 1..NumHandlers

\* No value encoded, no reader or parser called.
NoValue == [kind |-> "none"]
NoOut == [fn |-> "none"]
NoRecv == [outcome |-> "none"]

\* No PacketReader, and no ReadPacket or ReadPacketNoCopy call in progress.
NoReader == [buf |-> <<>>, size |-> 0, offset |-> 0]
NoRead == [pc |-> "idle", n |-> 0, split |-> FALSE, fn |-> ""]

\* A stream nothing was written to.  lost: a PacketReader.Reset dropped
\* bytes it had taken from the stream; torn: a Write on it returned an error.
NoStream == [wire |-> <<>>, sent |-> <<>>, written |-> <<>>, got |-> <<>>,
             lost |-> FALSE, torn |-> FALSE]

\* The reader and the writer are set on the same stream (wire, sent,
\* written, got); a second stream is there for Reset.
NoPipe == [lost |-> FALSE, torn |-> FALSE, resets |-> 0, other |-> NoStream]

\* A PacketWriter with no Write in progress, on the reader's stream.
NoWriter == [pc |-> "idle", id |-> 0, data |-> <<>>, same |-> TRUE, calls |-> 0]

\* The terminator before any Shutdown call: the accept loop started by
\* NewTerminatorHandler runs, h.ctx is not cancelled, the caller of
\* Shutdown and its context do not exist yet.

NoShutdown == [pc |-> "idle", loop |-> TRUE, cancelled |-> FALSE, keys |-> {},
               done |-> FALSE, ctxDone |-> FALSE, ret |-> "none"]

RECURSIVE SeqsUpTo(_, _)
SeqsUpTo(S, n) ==
    IF n = 0 THEN {<<>>}
    ELSE LET shorter == SeqsUpTo(S, n - 1)
         IN shorter \cup {Append(q, x) : q \in {r \in shorter : Len(r) = n - 1}, x \in S}

Call(i, h, r) == [pos |-> i, h |-> h, result |-> r]

(***************************************************************************)
(* Chain.OnConnect / Chain.OnPacket: the loop over c.handlers.  hs is the  *)
(* handler list, res[i] what the handler at position i returns when it is  *)
(* called in this invocation.  The value is the calls made and the Result  *)
(* returned.                                                               *)
(***************************************************************************)
RECURSIVE ChainLoop(_, _, _, _)
ChainLoop(hs, res, i, calls) ==
    IF i > Len(hs)
    THEN [calls |-> calls, result |-> Result(Drop, "nil")]
    ELSE LET result == res[i]
             made == Append(calls, Call(i, hs[i], result))
         IN IF result.Action # Continue
            THEN [calls |-> made, result |-> result]
            ELSE ChainLoop(hs, res, i + 1, made)

\* Mutants of the loops: one that does not return at a non-Continue result
\* (it keeps the first one and goes on), one that falls through with the zero
\* Result.
RECURSIVE LoopNoStop(_, _, _, _, _)
LoopNoStop(hs, res, i, calls, kept) ==
    IF i > Len(hs)
    THEN [calls |-> calls,
          result |-> IF kept = NoResult THEN Result(Drop, "nil") ELSE kept]
    ELSE LoopNoStop(hs, res, i + 1, Append(calls, Call(i, hs[i], res[i])),
                    IF kept = NoResult /\ res[i].Action # Continue
                    THEN res[i] ELSE kept)

ChainOnConnect_NoStop(hs, res) == LoopNoStop(hs, res, 1, <<>>, NoResult)

RECURSIVE LoopZero(_, _, _, _)
LoopZero(hs, res, i, calls) ==
    IF i > Len(hs)
    THEN [calls |-> calls, result |-> Result(Continue, "nil")]
    ELSE LET result == res[i]
             made == Append(calls, Call(i, hs[i], result))
         IN IF result.Action # Continue
            THEN [calls |-> made, result |-> result]
            ELSE LoopZero(hs, res, i + 1, made)

ChainOnPacket_Zero(hs, res) == LoopZero(hs, res, 1, <<>>)

ChainOnConnect(hs, res) == ChainLoop(hs, res, 1, <<>>)

ChainOnPacket(hs, res) == ChainLoop(hs, res, 1, <<>>)

(***************************************************************************)
(* Chain.OnDisconnect: every handler, in order.  The value is the calls.   *)
(***************************************************************************)
RECURSIVE DisconnectLoop(_, _, _)
DisconnectLoop(hs, i, calls) ==
    IF i > Len(hs) THEN calls
    ELSE DisconnectLoop(hs, i + 1, Append(calls, Call(i, hs[i], NoResult)))

\* Mutant: the loop stops one handler short.
ChainOnDisconnect_Short(hs) ==
    DisconnectLoop(SubSeq(hs, 1, Len(hs) - 1), 1, <<>>)

ChainOnDisconnect(hs) == DisconnectLoop(hs, 1, <<>>)

\* Chain.Handlers returns c.handlers itself, not a copy.
ChainHandlers == handlers

(***************************************************************************)
(* The mock handlers of handler_test.go record which hooks were called.    *)
(***************************************************************************)
MockFresh == [connectCalled |-> FALSE, packetCalled |-> FALSE, disconnectCalled |-> FALSE]

MarkCalled(m, calls, flag) ==
    [h \in HandlerIds |->
        IF \E i \in 1..Len(calls) : calls[i].h = h
        THEN [m[h] EXCEPT ![flag] = TRUE] ELSE m[h]]

NoCall == [op |-> "none", calls |-> <<>>, result |-> NoResult]

Init ==
    /\ handlers = <<>>
    /\ built = FALSE
    /\ aliases = {}
    /\ mock = [h \in HandlerIds |-> MockFresh]
    /\ last = NoCall
    /\ registry = <<>>
    /\ configs = <<>>
    /\ build = <<>>
    /\ sess = <<>>
    /\ stopped = FALSE
    /\ backends = <<>>
    /\ owner = <<>>
    /\ byAddr = <<>>
    /\ conn = <<>>
    /\ task = <<>>
    /\ sessions = {}
    /\ sessionCount = 0
    /\ pw = NoWriter
    /\ pipe = NoPipe
    /\ closedSessions = {}
    /\ now = 0
    /\ lastActivity = <<>>
    /\ recv = NoRecv
    /\ values = <<>>
    /\ sets = <<>>
    /\ arg = <<>>
    /\ enc = NoValue
    /\ ret = NoOut
    /\ wire = <<>>
    /\ sent = <<>>
    /\ written = <<>>
    /\ pr = NoReader
    /\ rp = NoRead
    /\ got = <<>>
    /\ shut = NoShutdown
    /\ reads = <<>>

(***************************************************************************)
(* NewChain(handlers ...Handler) keeps the slice it is given: called as    *)
(* NewChain(hs...) the chain shares the caller's backing array; called     *)
(* with the handlers listed, the array is fresh.                           *)
(***************************************************************************)
NewChain(hs, spread) ==
    /\ ~built
    /\ built' = TRUE
    /\ handlers' = hs
    /\ aliases' = IF spread THEN {"arg"} ELSE {}
    /\ UNCHANGED <<mock, last>>
    /\ UNCHANGED <<buildVars, demuxVars, termVars, trackVars, shutVars, codecVars, primVars, ctxVars, idleVars, closeVars, pipeVars>>

OnConnect(res) ==
    /\ built
    /\ LET out == ChainOnConnect(handlers, res)
       IN /\ last' = [op |-> "connect",
                      calls |-> out.calls, result |-> out.result]
          /\ mock' = MarkCalled(mock, out.calls, "connectCalled")
    /\ UNCHANGED <<handlers, built, aliases>>
    /\ UNCHANGED <<buildVars, demuxVars, termVars, trackVars, shutVars, codecVars, primVars, ctxVars, idleVars, closeVars, pipeVars>>

OnPacket(res) ==
    /\ built
    /\ LET out == ChainOnPacket(handlers, res)
       IN /\ last' = [op |-> "packet",
                      calls |-> out.calls, result |-> out.result]
          /\ mock' = MarkCalled(mock, out.calls, "packetCalled")
    /\ UNCHANGED <<handlers, built, aliases>>
    /\ UNCHANGED <<buildVars, demuxVars, termVars, trackVars, shutVars, codecVars, primVars, ctxVars, idleVars, closeVars, pipeVars>>

OnDisconnect ==
    /\ built
    /\ LET calls == ChainOnDisconnect(handlers)
       IN /\ last' = [op |-> "disconnect",
                      calls |-> calls, result |-> NoResult]
          /\ mock' = MarkCalled(mock, calls, "disconnectCalled")
    /\ UNCHANGED <<handlers, built, aliases>>
    /\ UNCHANGED <<buildVars, demuxVars, termVars, trackVars, shutVars, codecVars, primVars, ctxVars, idleVars, closeVars, pipeVars>>

Handlers ==
    /\ built
    /\ aliases' = aliases \cup {"ret"}
    /\ last' = [op |-> "handlers", calls |-> <<>>, result |-> NoResult]
    /\ UNCHANGED <<handlers, built, mock>>
    /\ UNCHANGED <<buildVars, demuxVars, termVars, trackVars, shutVars, codecVars, primVars, ctxVars, idleVars, closeVars, pipeVars>>

\* The caller assigns to an element of a slice that shares the chain's array.
CallerWrite(i, h) ==
    /\ built
    /\ aliases # {}
    /\ i \in 1..Len(handlers)
    /\ handlers[i] # h
    /\ handlers' = [handlers EXCEPT ![i] = h]
    /\ UNCHANGED <<built, aliases, mock, last>>
    /\ UNCHANGED <<buildVars, demuxVars, termVars, trackVars, shutVars, codecVars, primVars, ctxVars, idleVars, closeVars, pipeVars>>

\* The chains h1, ..., hn that the tests build from distinct handlers.
DistinctChains == {[i \in 1..n |-> i] : n \in 0..MaxChain}

Next ==
    \/ \E hs \in DistinctChains : NewChain(hs, FALSE)
    \/ \E res \in [1..Len(handlers) -> Results] : OnConnect(res)
    \/ \E res \in [1..Len(handlers) -> Results] : OnPacket(res)
    \/ OnDisconnect

Spec == Init /\ [][Next]_vars

(***************************************************************************)
(* The chain with a caller that keeps slices sharing its backing array.    *)
(***************************************************************************)
NextAlias ==
    \/ \E hs \in SeqsUpTo(HandlerIds, MaxChain), spread \in BOOLEAN : NewChain(hs, spread)
    \/ OnDisconnect
    \/ Handlers
    \/ \E i \in 1..MaxChain, h \in HandlerIds : CallerWrite(i, h)

SpecAlias == Init /\ [][NextAlias]_vars

(***************************************************************************)
(* The handler registry and BuildChain.  A HandlerConfig is a type name    *)
(* and an opaque config blob; a factory makes a handler from the blob or   *)
(* fails.  The example and logsni factories ignore the blob and never      *)
(* fail; the terminator factory fails on a blob it cannot use.             *)
(***************************************************************************)
Types == {"example", "logsni", "terminator", "custom"}
Blobs == {"good", "bad"}
HandlerConfigs == [Type : Types, Config : Blobs]
Factories == {"NewExampleHandler", "NewLogSNIHandler", "NewTerminatorHandler"}

\* What a factory returns for a config blob: the handler (by its Name) and
\* the error.
Factory(f, blob) ==
    CASE f = "NewExampleHandler" -> [h |-> "example", err |-> "nil"]
      [] f = "NewLogSNIHandler" -> [h |-> "logsni", err |-> "nil"]
      [] f = "NewTerminatorHandler" ->
            IF blob = "bad" THEN [h |-> "nil", err |-> "err"]
            ELSE [h |-> "terminator", err |-> "nil"]

\* The registry once every init() has run.
InitRegistry ==
    [t \in {"example", "logsni", "terminator"} |->
        CASE t = "example" -> "NewExampleHandler"
          [] t = "logsni" -> "NewLogSNIHandler"
          [] t = "terminator" -> "NewTerminatorHandler"]

\* registry[name] = factory
RegistryPut(reg, name, factory) ==
    [t \in DOMAIN reg \cup {name} |-> IF t = name THEN factory ELSE reg[t]]

NilChain == [nil |-> TRUE, handlers |-> <<>>]

RECURSIVE BuildLoop(_, _, _, _, _)
BuildLoop(reg, cfgs, i, hs, calls) ==
    IF i > Len(cfgs)
    THEN [chain |-> [nil |-> FALSE, handlers |-> hs], err |-> "nil", calls |-> calls]
    ELSE LET cfg == cfgs[i]
         IN IF cfg.Type \notin DOMAIN reg
            THEN [chain |-> NilChain, err |-> "unknown handler type", calls |-> calls]
            ELSE LET made == Factory(reg[cfg.Type], cfg.Config)
                     called == Append(calls, i)
                 IN IF made.err # "nil"
                    THEN [chain |-> NilChain, err |-> "failed to create handler",
                          calls |-> called]
                    ELSE BuildLoop(reg, cfgs, i + 1, Append(hs, made.h), called)

\* Mutant: an unknown type is skipped instead of failing the construction.
RECURSIVE BuildLoopSkip(_, _, _, _, _)
BuildLoopSkip(reg, cfgs, i, hs, calls) ==
    IF i > Len(cfgs)
    THEN [chain |-> [nil |-> FALSE, handlers |-> hs], err |-> "nil", calls |-> calls]
    ELSE LET cfg == cfgs[i]
         IN IF cfg.Type \notin DOMAIN reg
            THEN BuildLoopSkip(reg, cfgs, i + 1, hs, calls)
            ELSE LET made == Factory(reg[cfg.Type], cfg.Config)
                     called == Append(calls, i)
                 IN IF made.err # "nil"
                    THEN [chain |-> NilChain, err |-> "failed to create handler",
                          calls |-> called]
                    ELSE BuildLoopSkip(reg, cfgs, i + 1, Append(hs, made.h), called)

BuildChain_SkipUnknown(reg, cfgs) == BuildLoopSkip(reg, cfgs, 1, <<>>, <<>>)

BuildChain(reg, cfgs) == BuildLoop(reg, cfgs, 1, <<>>, <<>>)

NoBuild == [done |-> FALSE, chain |-> NilChain, err |-> "nil", calls |-> <<>>]

InitBuild ==
    /\ handlers = <<>>
    /\ built = FALSE
    /\ aliases = {}
    /\ mock = [h \in HandlerIds |-> MockFresh]
    /\ last = NoCall
    /\ registry = InitRegistry
    /\ configs \in SeqsUpTo(HandlerConfigs, MaxConfigs)
    /\ build = NoBuild
    /\ sess = <<>>
    /\ stopped = FALSE
    /\ backends = <<>>
    /\ owner = <<>>
    /\ byAddr = <<>>
    /\ conn = <<>>
    /\ task = <<>>
    /\ sessions = {}
    /\ sessionCount = 0
    /\ pw = NoWriter
    /\ pipe = NoPipe
    /\ closedSessions = {}
    /\ now = 0
    /\ lastActivity = <<>>
    /\ recv = NoRecv
    /\ values = <<>>
    /\ sets = <<>>
    /\ arg = <<>>
    /\ enc = NoValue
    /\ ret = NoOut
    /\ wire = <<>>
    /\ sent = <<>>
    /\ written = <<>>
    /\ pr = NoReader
    /\ rp = NoRead
    /\ got = <<>>
    /\ shut = NoShutdown
    /\ reads = <<>>

Register(name, factory) ==
    /\ ~build.done
    /\ registry' = RegistryPut(registry, name, factory)
    /\ UNCHANGED <<configs, build>>
    /\ UNCHANGED <<chainVars, demuxVars, termVars, trackVars, shutVars, codecVars, primVars, ctxVars, idleVars, closeVars, pipeVars>>

BuildChainCall ==
    /\ ~build.done
    /\ LET out == BuildChain(registry, configs)
       IN build' = [done |-> TRUE, chain |-> out.chain, err |-> out.err,
                    calls |-> out.calls]
    /\ UNCHANGED <<registry, configs>>
    /\ UNCHANGED <<chainVars, demuxVars, termVars, trackVars, shutVars, codecVars, primVars, ctxVars, idleVars, closeVars, pipeVars>>

NextBuild ==
    \/ \E f \in Factories : Register("custom", f)
    \/ BuildChainCall

SpecBuild == InitBuild /\ [][NextBuild]_vars

(***************************************************************************)
(* The session life cycle the demultiplexer drives through the chain       *)
(* (spec sections 3, 4.5 and 4.6).  A session is created on the first      *)
(* Initial of a new (client address, DCID) key and the chain's OnConnect   *)
(* runs; later datagrams of the key run OnPacket; a Drop from the chain,   *)
(* the idle scan and shutdown tear the session down, which runs the        *)
(* chain's OnDisconnect.  log records the chain hooks invoked (pos 0) and  *)
(* the handlers' OnDisconnect calls (pos = place in the chain).            *)
(***************************************************************************)
ClientKeys == {"k1", "k2"}
SessionIds == 1..MaxSessions

Ev(hook, pos) == [hook |-> hook, pos |-> pos]

NoSession == [state |-> "none", key |-> "", packets |-> 0, log |-> <<>>, cause |-> ""]

DisconnectEvents(hs) ==
    LET calls == ChainOnDisconnect(hs)
    IN [i \in 1..Len(calls) |-> Ev("OnDisconnect", calls[i].pos)]

Teardown(se, cause) ==
    [se EXCEPT !.state = "closed", !.cause = cause,
               !.log = @ \o DisconnectEvents(handlers)]

LiveWithKey(k) == {id \in SessionIds : sess[id].state = "live" /\ sess[id].key = k}
FreeIds == {id \in SessionIds : sess[id].state = "none"}

InitDemux ==
    /\ handlers \in DistinctChains
    /\ built = TRUE
    /\ aliases = {}
    /\ mock = [h \in HandlerIds |-> MockFresh]
    /\ last = NoCall
    /\ registry = <<>>
    /\ configs = <<>>
    /\ build = <<>>
    /\ sess = [id \in SessionIds |-> NoSession]
    /\ stopped = FALSE
    /\ backends = <<>>
    /\ owner = <<>>
    /\ byAddr = <<>>
    /\ conn = <<>>
    /\ task = <<>>
    /\ sessions = {}
    /\ sessionCount = 0
    /\ pw = NoWriter
    /\ pipe = NoPipe
    /\ closedSessions = {}
    /\ now = 0
    /\ lastActivity = <<>>
    /\ recv = NoRecv
    /\ values = <<>>
    /\ sets = <<>>
    /\ arg = <<>>
    /\ enc = NoValue
    /\ ret = NoOut
    /\ wire = <<>>
    /\ sent = <<>>
    /\ written = <<>>
    /\ pr = NoReader
    /\ rp = NoRead
    /\ got = <<>>
    /\ shut = NoShutdown
    /\ reads = <<>>

\* An Initial of a key with no session: create the session, run OnConnect.
RecvInitial(k, res) ==
    /\ ~stopped
    /\ LiveWithKey(k) = {}
    /\ FreeIds # {}
    /\ LET id == CHOOSE i \in FreeIds : \A j \in FreeIds : i <= j
           out == ChainOnConnect(handlers, res)
           made == [state |-> "live", key |-> k, packets |-> 0,
                    log |-> <<Ev("OnConnect", 0)>>, cause |-> ""]
       IN sess' = [sess EXCEPT ![id] =
                      IF out.result.Action = Drop THEN Teardown(made, "drop")
                      ELSE made]
    /\ UNCHANGED stopped
    /\ UNCHANGED <<chainVars, buildVars, termVars, trackVars, shutVars, codecVars, primVars, ctxVars, idleVars, closeVars, pipeVars>>

\* A later datagram of a key that has a session: run OnPacket.
RecvPacket(k, res) ==
    /\ ~stopped
    /\ \E id \in LiveWithKey(k) :
          /\ sess[id].packets < MaxPackets
          /\ LET out == ChainOnPacket(handlers, res)
                 seen == [sess[id] EXCEPT !.packets = @ + 1,
                                          !.log = Append(@, Ev("OnPacket", 0))]
             IN sess' = [sess EXCEPT ![id] =
                            IF out.result.Action = Drop THEN Teardown(seen, "drop")
                            ELSE seen]
    /\ UNCHANGED stopped
    /\ UNCHANGED <<chainVars, buildVars, termVars, trackVars, shutVars, codecVars, primVars, ctxVars, idleVars, closeVars, pipeVars>>

\* The background scan finds the session idle for longer than the timeout.
IdleScan(id) ==
    /\ ~stopped
    /\ sess[id].state = "live"
    /\ sess' = [sess EXCEPT ![id] = Teardown(@, "idle")]
    /\ UNCHANGED stopped
    /\ UNCHANGED <<chainVars, buildVars, termVars, trackVars, shutVars, codecVars, primVars, ctxVars, idleVars, closeVars, pipeVars>>

\* Shutdown tears down every session that is left.
Shutdown ==
    /\ ~stopped
    /\ stopped' = TRUE
    /\ sess' = [id \in SessionIds |->
                  IF sess[id].state = "live" THEN Teardown(sess[id], "shutdown")
                  ELSE sess[id]]
    /\ UNCHANGED <<chainVars, buildVars, termVars, trackVars, shutVars, codecVars, primVars, ctxVars, idleVars, closeVars, pipeVars>>

NextDemux ==
    \/ \E k \in ClientKeys, res \in [1..Len(handlers) -> Results] : RecvInitial(k, res)
    \/ \E k \in ClientKeys, res \in [1..Len(handlers) -> Results] : RecvPacket(k, res)
    \/ \E id \in SessionIds : IdleScan(id)
    \/ Shutdown

SpecDemux == InitDemux /\ [][NextDemux]_vars

(***************************************************************************)
(* The receive loop and the idle scan with the clock made explicit (spec   *)
(* section 4.5).  A datagram has the key of its flow, a class (Initial or  *)
(* another one: 0-RTT, Handshake, Retry, short header) and, for an         *)
(* Initial, whether it decrypts and its ClientHello parses.  The chain has *)
(* one handler.                                                            *)
(***************************************************************************)
IdleTimeout == 1
DatagramKinds == {"Initial", "Other"}

\* Mutant: a session is made before the Initial is decrypted.
Creates_Undecrypted(k, kind, decrypts) ==
    /\ LiveWithKey(k) = {}
    /\ kind = "Initial"

\* Step 3: no session exists, the packet is an Initial, it decrypts and parses.
Creates(k, kind, decrypts) ==
    /\ LiveWithKey(k) = {}
    /\ kind = "Initial"
    /\ decrypts

\* Mutant: a session is torn down when its idle time reaches the threshold.
Expired_Inclusive(id) ==
    /\ sess[id].state = "live"
    /\ now - lastActivity[id] >= IdleTimeout

\* last-activity is older than the threshold
Expired(id) ==
    /\ sess[id].state = "live"
    /\ now - lastActivity[id] > IdleTimeout

InitIdle ==
    /\ handlers = <<1>>
    /\ built = TRUE
    /\ aliases = {}
    /\ mock = [h \in HandlerIds |-> MockFresh]
    /\ last = NoCall
    /\ registry = <<>>
    /\ configs = <<>>
    /\ build = <<>>
    /\ sess = [id \in SessionIds |-> NoSession]
    /\ stopped = FALSE
    /\ backends = <<>>
    /\ owner = <<>>
    /\ byAddr = <<>>
    /\ conn = <<>>
    /\ task = <<>>
    /\ sessions = {}
    /\ sessionCount = 0
    /\ pw = NoWriter
    /\ pipe = NoPipe
    /\ closedSessions = {}
    /\ now = 0
    /\ lastActivity = [id \in SessionIds |-> 0]
    /\ recv = NoRecv
    /\ values = <<>>
    /\ sets = <<>>
    /\ arg = <<>>
    /\ enc = NoValue
    /\ ret = NoOut
    /\ wire = <<>>
    /\ sent = <<>>
    /\ written = <<>>
    /\ pr = NoReader
    /\ rp = NoRead
    /\ got = <<>>
    /\ shut = NoShutdown
    /\ reads = <<>>

\* One datagram of the receive loop.
Recv(k, kind, decrypts, res) ==
    /\ ~stopped
    /\ IF LiveWithKey(k) # {}
       THEN \E id \in LiveWithKey(k) :
              /\ sess[id].packets < MaxPackets
              /\ LET out == ChainOnPacket(handlers, res)
                     seen == [sess[id] EXCEPT !.packets = @ + 1,
                                              !.log = Append(@, Ev("OnPacket", 0))]
                 IN sess' = [sess EXCEPT ![id] =
                                IF out.result.Action = Drop THEN Teardown(seen, "drop")
                                ELSE seen]
              /\ lastActivity' = [lastActivity EXCEPT ![id] = now]
              /\ recv' = [key |-> k, kind |-> kind, decrypts |-> decrypts,
                          outcome |-> "packet"]
       ELSE IF Creates(k, kind, decrypts)
       THEN /\ FreeIds # {}
            /\ LET id == CHOOSE i \in FreeIds : \A j \in FreeIds : i <= j
                   out == ChainOnConnect(handlers, res)
                   made == [state |-> "live", key |-> k, packets |-> 0,
                            log |-> <<Ev("OnConnect", 0)>>, cause |-> ""]
               IN /\ sess' = [sess EXCEPT ![id] =
                                 IF out.result.Action = Drop THEN Teardown(made, "drop")
                                 ELSE made]
                  /\ lastActivity' = [lastActivity EXCEPT ![id] = now]
            /\ recv' = [key |-> k, kind |-> kind, decrypts |-> decrypts,
                        outcome |-> "created"]
       ELSE /\ recv' = [key |-> k, kind |-> kind, decrypts |-> decrypts,
                        outcome |-> "dropped"]
            /\ UNCHANGED <<sess, lastActivity>>
    /\ UNCHANGED <<stopped, now>>
    /\ UNCHANGED <<chainVars, buildVars, termVars, trackVars, shutVars, codecVars, primVars, ctxVars, closeVars, pipeVars>>

\* Time passes.
Tick ==
    /\ now < MaxTime
    /\ now' = now + 1
    /\ UNCHANGED <<sess, stopped, lastActivity, recv>>
    /\ UNCHANGED <<chainVars, buildVars, termVars, trackVars, shutVars, codecVars, primVars, ctxVars, closeVars, pipeVars>>

\* The background ticker scans the sessions and tears down the idle ones.
Scan ==
    /\ ~stopped
    /\ sess' = [id \in SessionIds |->
                  IF Expired(id) THEN Teardown(sess[id], "idle") ELSE sess[id]]
    /\ UNCHANGED <<stopped, now, lastActivity, recv>>
    /\ UNCHANGED <<chainVars, buildVars, termVars, trackVars, shutVars, codecVars, primVars, ctxVars, closeVars, pipeVars>>

\* The receive loop on datagrams of every class.
NextRecv ==
    \E k \in ClientKeys, kind \in DatagramKinds, decrypts \in BOOLEAN,
       res \in [1..Len(handlers) -> Results] : Recv(k, kind, decrypts, res)

SpecRecv == InitIdle /\ [][NextRecv]_vars

\* The receive loop on Initials that decrypt, the clock and the ticker.
NextIdle ==
    \/ \E k \in ClientKeys, res \in [1..Len(handlers) -> Results] :
          Recv(k, "Initial", TRUE, res)
    \/ Tick
    \/ Scan

SpecIdle == InitIdle /\ [][NextIdle]_vars /\ WF_vars(Scan)

(***************************************************************************)
(* QUIC packets as byte sequences.  A nil slice is not an empty one:       *)
(* OnDisconnect tests InitialPacket against nil.                           *)
(***************************************************************************)
Packet(bytes) == [nil |-> FALSE, bytes |-> bytes]
NilPacket == [nil |-> TRUE, bytes |-> <<>>]

\* hex.EncodeToString
HexChars == <<"0", "1", "2", "3", "4", "5", "6", "7",
              "8", "9", "a", "b", "c", "d", "e", "f">>
HexByte(b) == HexChars[(b \div 16) + 1] \o HexChars[(b % 16) + 1]

RECURSIVE HexEncode(_)
HexEncode(bytes) ==
    IF bytes = <<>> THEN "" ELSE HexByte(Head(bytes)) \o HexEncode(Tail(bytes))

\* Mutant: a packet that ends with its DCID is taken to be too short.
parseQUICDCID_OffByOne(packet) ==
    IF Len(packet) < 6 THEN ""
    ELSE IF packet[1] \div 128 = 0 THEN ""
    ELSE LET dcidLen == packet[6]
         IN IF dcidLen = 0 \/ Len(packet) <= 6 + dcidLen THEN ""
            ELSE HexEncode(SubSeq(packet, 7, 6 + dcidLen))

\* parseQUICDCID: the hex DCID of a long-header packet, "" otherwise.
\* packet[0] of the source is packet[1] here.
parseQUICDCID(packet) ==
    IF Len(packet) < 6 THEN ""
    ELSE IF packet[1] \div 128 = 0 THEN ""
    ELSE LET dcidLen == packet[6]
         IN IF dcidLen = 0 \/ Len(packet) < 6 + dcidLen THEN ""
            ELSE HexEncode(SubSeq(packet, 7, 6 + dcidLen))

\* Initial packets with DCID aa and bb, a Handshake packet with DCID cc, a
\* short-header packet, and a long-header packet cut inside its DCID.
PktAA == Packet(<<192, 0, 0, 0, 1, 1, 170, 0>>)
PktBB == Packet(<<192, 0, 0, 0, 1, 1, 187, 0>>)
PktCC == Packet(<<224, 0, 0, 0, 1, 1, 204, 0>>)
PktShort == Packet(<<64, 0, 0, 0, 1, 1, 170, 0>>)
PktCut == Packet(<<192, 0, 0, 0, 1, 2, 170>>)

InitialPackets == {PktAA, PktBB, PktShort, PktCut, NilPacket}
LaterPackets == {PktCC, PktShort}

(***************************************************************************)
(* Context values: only the key "backend" is modelled.  A value carries    *)
(* its dynamic type; GetString gives "" for a missing key and for a value  *)
(* that is not a string.                                                   *)
(***************************************************************************)
Missing == [type |-> "none", val |-> ""]
StringValue(str) == [type |-> "string", val |-> str]
IntValue == [type |-> "int", val |-> "42"]

GetString(v) == IF v.type = "string" THEN v.val ELSE ""

BackendValues == {Missing, IntValue, StringValue(""), StringValue("B1"), StringValue("B2")}

InternalAddr == "127.0.0.1:5521"

\* sync.Map Store and Delete, and the tracker's map operations.
MapStore(m, k, v) == [x \in DOMAIN m \cup {k} |-> IF x = k THEN v ELSE m[x]]
MapDelete(m, k) == [x \in DOMAIN m \ {k} |-> m[x]]

(***************************************************************************)
(* TerminatorHandler.OnConnect on a Context with the given backend value   *)
(* and InitialPacket, against registry reg: the Result, the registry and   *)
(* the context's backend value afterwards.                                 *)
(***************************************************************************)
\* Mutants: ctx.Set before the Store, so that the registry gets the
\* internal address; and a missing DCID check.
TerminatorOnConnect_SetFirst(value, packet, reg) ==
    LET backend == GetString(value)
        dcid == parseQUICDCID(packet.bytes)
    IN IF backend = ""
       THEN [result |-> Result(Drop, "no backend"), backends |-> reg, value |-> value]
       ELSE IF dcid = ""
       THEN [result |-> Result(Drop, "no DCID in packet"), backends |-> reg, value |-> value]
       ELSE [result |-> Result(Continue, "nil"),
             backends |-> MapStore(reg, dcid, InternalAddr),
             value |-> StringValue(InternalAddr)]

TerminatorOnConnect_NoDcidCheck(value, packet, reg) ==
    LET backend == GetString(value)
        dcid == parseQUICDCID(packet.bytes)
    IN IF backend = ""
       THEN [result |-> Result(Drop, "no backend"), backends |-> reg, value |-> value]
       ELSE [result |-> Result(Continue, "nil"),
             backends |-> MapStore(reg, dcid, backend),
             value |-> StringValue(InternalAddr)]

TerminatorOnConnect(value, packet, reg) ==
    LET backend == GetString(value)
        dcid == parseQUICDCID(packet.bytes)
    IN IF backend = ""
       THEN [result |-> Result(Drop, "no backend"), backends |-> reg, value |-> value]
       ELSE IF dcid = ""
       THEN [result |-> Result(Drop, "no DCID in packet"), backends |-> reg, value |-> value]
       ELSE [result |-> Result(Continue, "nil"),
             backends |-> MapStore(reg, dcid, backend),
             value |-> StringValue(InternalAddr)]

\* Mutant: OnDisconnect that leaves the registry alone.
TerminatorOnDisconnect_Keep(packet, reg) == reg

\* TerminatorHandler.OnDisconnect: the registry afterwards.
TerminatorOnDisconnect(packet, reg) ==
    IF ~packet.nil
    THEN LET dcid == parseQUICDCID(packet.bytes)
         IN IF dcid # "" THEN MapDelete(reg, dcid) ELSE reg
    ELSE reg

\* Mutant: ReadFrom that stores the DCID of every long-header packet.
TrackerReadFrom_Overwrite(m, addr, bytes) ==
    IF Len(bytes) > 6
    THEN LET dcid == parseQUICDCID(bytes)
         IN IF dcid # "" THEN MapStore(m, addr, dcid) ELSE m
    ELSE m

\* dcidTracker.ReadFrom of an n-byte datagram from addr: the map afterwards.
TrackerReadFrom(m, addr, bytes) ==
    IF Len(bytes) > 6
    THEN LET dcid == parseQUICDCID(bytes)
         IN IF dcid # "" /\ addr \notin DOMAIN m THEN MapStore(m, addr, dcid) ELSE m
    ELSE m

\* dcidTracker.GetDCID
TrackerGetDCID(m, addr) == IF addr \in DOMAIN m THEN m[addr] ELSE ""

(***************************************************************************)
(* The terminator at work.  conn[s] is a client session as the terminator  *)
(* sees it: its Context (InitialPacket and the backend value), the Result  *)
(* of OnConnect, and the local address of the forwarder socket that        *)
(* carries its datagrams to the internal listener (0: none open).  task[s] *)
(* is the handleConnection goroutine of the inner QUIC connection that     *)
(* arrives from that socket.  byAddr is the dcidTracker's map.             *)
(***************************************************************************)
Conns == 1..MaxConns
Addrs == 1..NumAddrs

NoConn == [phase |-> "none", InitialPacket |-> NilPacket, backend |-> Missing,
           result |-> NoResult, addr |-> 0]
NoTask == [pc |-> "idle", remoteAddr |-> 0, dcid |-> "", backend |-> "",
           ok |-> FALSE, closed |-> 0, sid |-> 0, entry |-> 0,
           gone |-> FALSE, dials |-> 0, dialErr |-> FALSE, server |-> "none"]

InitTerm ==
    /\ handlers = <<>>
    /\ built = FALSE
    /\ aliases = {}
    /\ mock = MockFresh
    /\ last = NoCall
    /\ registry = <<>>
    /\ configs = <<>>
    /\ build = <<>>
    /\ sess = <<>>
    /\ stopped = FALSE
    /\ backends = <<>>
    /\ owner = <<>>
    /\ byAddr = <<>>
    /\ conn = [s \in Conns |-> NoConn]
    /\ task = [s \in Conns |-> NoTask]
    /\ sessions = {}
    /\ sessionCount = 0
    /\ pw = NoWriter
    /\ pipe = NoPipe
    /\ closedSessions = {}
    /\ now = 0
    /\ lastActivity = <<>>
    /\ recv = NoRecv
    /\ values = <<>>
    /\ sets = <<>>
    /\ arg = <<>>
    /\ enc = NoValue
    /\ ret = NoOut
    /\ wire = <<>>
    /\ sent = <<>>
    /\ written = <<>>
    /\ pr = NoReader
    /\ rp = NoRead
    /\ got = <<>>
    /\ shut = NoShutdown
    /\ reads = <<>>

\* The DCIDs, backend addresses and local addresses that occur in the
\* state.  Names that do not occur are interchangeable, so of those only
\* the first in a fixed order is offered to a new session or socket; names
\* that occur are all offered.
UsedDcids ==
    {parseQUICDCID(conn[s].InitialPacket.bytes) : s \in Conns}
    \cup DOMAIN backends
    \cup {byAddr[a] : a \in DOMAIN byAddr}
    \cup {task[s].dcid : s \in Conns}
UsedBackends ==
    {GetString(conn[s].backend) : s \in Conns}
    \cup {backends[d] : d \in DOMAIN backends}
    \cup {task[s].backend : s \in Conns}
UsedAddrs ==
    {conn[s].addr : s \in Conns}
    \cup DOMAIN byAddr
    \cup {task[s].remoteAddr : s \in Conns}

\* A new client session reaches the terminator: the handlers before it
\* have left some backend value in the Context.  Sessions take the
\* identifiers in order.
NewConn(s, packet, value) ==
    /\ conn[s].phase = "none"
    /\ \A t \in Conns : t < s => conn[t].phase # "none"
    /\ packet = PktBB => UsedDcids \cap {"aa", "bb"} # {}
    /\ value = StringValue("B2") => UsedBackends \cap {"B1", "B2"} # {}
    /\ conn' = [conn EXCEPT ![s] = [NoConn EXCEPT !.phase = "new",
                                                  !.InitialPacket = packet,
                                                  !.backend = value]]
    /\ UNCHANGED <<backends, owner, byAddr, task, sessions, sessionCount>>
    /\ UNCHANGED <<chainVars, buildVars, demuxVars, trackVars, shutVars, codecVars, primVars, ctxVars, idleVars, closeVars, pipeVars>>

\* TerminatorHandler.OnConnect for session s.
TermOnConnect(s) ==
    /\ conn[s].phase = "new"
    /\ LET r == TerminatorOnConnect(conn[s].backend, conn[s].InitialPacket, backends)
       IN /\ backends' = r.backends
          /\ owner' = IF r.result.Action = Continue
                      THEN MapStore(owner, parseQUICDCID(conn[s].InitialPacket.bytes), s)
                      ELSE owner
          /\ conn' = [conn EXCEPT ![s].backend = r.value,
                                  ![s].result = r.result,
                                  ![s].phase = IF r.result.Action = Continue
                                               THEN "continued" ELSE "dropped"]
    /\ UNCHANGED <<byAddr, task, sessions, sessionCount>>
    /\ UNCHANGED <<chainVars, buildVars, demuxVars, trackVars, shutVars, codecVars, primVars, ctxVars, idleVars, closeVars, pipeVars>>

\* TerminatorHandler.OnDisconnect for session s (after a Drop, an idle
\* timeout or a shutdown); the forwarder socket closes with the session and
\* the Context goes with it.
TermOnDisconnect(s) ==
    /\ conn[s].phase \in {"continued", "dropped"}
    /\ backends' = TerminatorOnDisconnect(conn[s].InitialPacket, backends)
    /\ owner' = [d \in DOMAIN backends' |-> owner[d]]
    /\ conn' = [conn EXCEPT ![s].phase = "closed", ![s].backend = Missing,
                            ![s].InitialPacket = NilPacket, ![s].addr = 0]
    /\ UNCHANGED <<byAddr, task, sessions, sessionCount>>
    /\ UNCHANGED <<chainVars, buildVars, demuxVars, trackVars, shutVars, codecVars, primVars, ctxVars, idleVars, closeVars, pipeVars>>

\* Local addresses of the forwarder sockets that are open.
OpenAddrs == {conn[s].addr : s \in {t \in Conns : conn[t].phase = "continued"}} \ {0}

\* The forwarder dials the internal listener from a free local address and
\* sends the session's first datagram; the tracker reads it, and the inner
\* QUIC connection from that address waits to be accepted.
Forward(s, a) ==
    /\ conn[s].phase = "continued"
    /\ conn[s].addr = 0
    /\ a \notin OpenAddrs
    /\ a \in UsedAddrs \/ \A b \in Addrs : b < a => b \in UsedAddrs
    /\ conn' = [conn EXCEPT ![s].addr = a]
    /\ byAddr' = TrackerReadFrom(byAddr, a, conn[s].InitialPacket.bytes)
    /\ task' = [task EXCEPT ![s].pc = "queued", ![s].remoteAddr = a]
    /\ UNCHANGED <<backends, owner, sessions, sessionCount>>
    /\ UNCHANGED <<chainVars, buildVars, demuxVars, trackVars, shutVars, codecVars, primVars, ctxVars, idleVars, closeVars, pipeVars>>

\* A later datagram of session s reaches the tracker.
ForwardMore(s, packet) ==
    /\ conn[s].phase = "continued"
    /\ conn[s].addr # 0
    /\ byAddr' = TrackerReadFrom(byAddr, conn[s].addr, packet.bytes)
    /\ byAddr' # byAddr
    /\ UNCHANGED <<backends, owner, conn, task, sessions, sessionCount>>
    /\ UNCHANGED <<chainVars, buildVars, demuxVars, trackVars, shutVars, codecVars, primVars, ctxVars, idleVars, closeVars, pipeVars>>

\* acceptLoop, while it runs: the inner connection of session s is accepted
\* and handleConnection starts with its remote address (wg.Add(1)).
Accept(s) ==
    /\ shut.loop
    /\ task[s].pc = "queued"
    /\ task' = [task EXCEPT ![s].pc = "getdcid"]
    /\ UNCHANGED <<backends, owner, byAddr, conn, sessions, sessionCount>>
    /\ UNCHANGED <<chainVars, buildVars, demuxVars, trackVars, shutVars, codecVars, primVars, ctxVars, idleVars, closeVars, pipeVars>>

\* handleConnection: tracker.GetDCID; with no DCID the connection is closed
\* with code 0x01.
HcGetDCID(s) ==
    /\ task[s].pc = "getdcid"
    /\ LET dcid == TrackerGetDCID(byAddr, task[s].remoteAddr)
       IN task' = [task EXCEPT ![s].dcid = dcid,
                               ![s].pc = IF dcid = "" THEN "done" ELSE "load",
                               ![s].closed = IF dcid = "" THEN 1 ELSE 0,
                               ![s].remoteAddr = IF dcid = "" THEN 0
                                                 ELSE task[s].remoteAddr]
    /\ UNCHANGED <<backends, owner, byAddr, conn, sessions, sessionCount>>
    /\ UNCHANGED <<chainVars, buildVars, demuxVars, trackVars, shutVars, codecVars, primVars, ctxVars, idleVars, closeVars, pipeVars>>

\* Mutant: a missing registry entry closes the client with code 0x02.
HcLoad_WrongCode(s) ==
    /\ task[s].pc = "load"
    /\ LET ok == task[s].dcid \in DOMAIN backends
       IN task' = [task EXCEPT ![s].ok = ok,
                               ![s].backend = IF ok THEN backends[task[s].dcid] ELSE "",
                               ![s].entry = IF ok THEN owner[task[s].dcid] ELSE 0,
                               ![s].pc = "untrack",
                               ![s].closed = IF ok THEN 0 ELSE 2]
    /\ UNCHANGED <<backends, owner, byAddr, conn, sessions, sessionCount>>
    /\ UNCHANGED <<chainVars, buildVars, demuxVars, trackVars, shutVars, codecVars, primVars, ctxVars, idleVars, closeVars, pipeVars>>

\* handleConnection: backends.Load; with no backend the connection is
\* closed with code 0x01 and the tracker entry goes next.  entry names the
\* registration the backend was loaded from.
HcLoad(s) ==
    /\ task[s].pc = "load"
    /\ LET ok == task[s].dcid \in DOMAIN backends
       IN task' = [task EXCEPT ![s].ok = ok,
                               ![s].backend = IF ok THEN backends[task[s].dcid] ELSE "",
                               ![s].entry = IF ok THEN owner[task[s].dcid] ELSE 0,
                               ![s].pc = "untrack",
                               ![s].closed = IF ok THEN 0 ELSE 1]
    /\ UNCHANGED <<backends, owner, byAddr, conn, sessions, sessionCount>>
    /\ UNCHANGED <<chainVars, buildVars, demuxVars, trackVars, shutVars, codecVars, primVars, ctxVars, idleVars, closeVars, pipeVars>>

\* handleConnection: tracker.Delete(remoteAddr), on both paths.  A local
\* variable is cleared after its last use, here remoteAddr and, on the
\* path that returns, dcid.
HcTrackerDelete(s) ==
    /\ task[s].pc = "untrack"
    /\ byAddr' = MapDelete(byAddr, task[s].remoteAddr)
    /\ task' = [task EXCEPT ![s].pc = IF task[s].ok THEN "consume" ELSE "done",
                            ![s].dcid = IF task[s].ok THEN task[s].dcid ELSE "",
                            ![s].remoteAddr = 0]
    /\ UNCHANGED <<backends, owner, conn, sessions, sessionCount>>
    /\ UNCHANGED <<chainVars, buildVars, demuxVars, trackVars, shutVars, codecVars, primVars, ctxVars, idleVars, closeVars, pipeVars>>

\* handleConnection: backends.Delete(dcid).  From here on the task no
\* longer holds the entry it loaded.
HcBackendsDelete(s) ==
    /\ task[s].pc = "consume"
    /\ backends' = MapDelete(backends, task[s].dcid)
    /\ owner' = MapDelete(owner, task[s].dcid)
    /\ task' = [task EXCEPT ![s].pc = "dial", ![s].entry = 0]
    /\ UNCHANGED <<byAddr, conn, sessions, sessionCount>>
    /\ UNCHANGED <<chainVars, buildVars, demuxVars, trackVars, shutVars, codecVars, primVars, ctxVars, idleVars, closeVars, pipeVars>>

\* The client side of the inner connection goes away (its Context is
\* done).  handleConnection looks at this once, in the select after the
\* dial, so the step is taken while the dial is under way or between the
\* return of the dial and that select.
ClientGone(s) ==
    /\ task[s].pc \in {"dial", "select"}
    /\ ~task[s].gone
    /\ task' = [task EXCEPT ![s].gone = TRUE]
    /\ UNCHANGED <<backends, owner, byAddr, conn, sessions, sessionCount>>
    /\ UNCHANGED <<chainVars, buildVars, demuxVars, trackVars, shutVars, codecVars, primVars, ctxVars, idleVars, closeVars, pipeVars>>

\* Mutant: a failed dial closes the client with code 0x01.
HcDial_WrongCode(s, outcome) ==
    /\ task[s].pc = "dial"
    /\ outcome = "ok" => ~shut.cancelled
    /\ IF outcome = "fail"
       THEN task' = [task EXCEPT ![s].pc = "done", ![s].closed = 1,
                                 ![s].backend = "", ![s].dials = @ + 1, ![s].gone = FALSE,
                                 ![s].dialErr = TRUE]
       ELSE task' = [task EXCEPT ![s].pc = "select", ![s].backend = "",
                                 ![s].dials = @ + 1, ![s].server = "open"]
    /\ UNCHANGED <<backends, owner, byAddr, conn, sessions, sessionCount>>
    /\ UNCHANGED <<chainVars, buildVars, demuxVars, trackVars, shutVars, codecVars, primVars, ctxVars, idleVars, closeVars, pipeVars>>

\* handleConnection: quic.DialAddr returns.  A failed dial (an error, the
\* 10 s timeout, or h.ctx cancelled, from which dialCtx derives) closes the
\* client with code 0x02 and handleConnection returns.  After a successful
\* dial handleConnection holds the backend connection and goes on to look
\* at the client; whether the client is gone is not read here.
HcDial(s, outcome) ==
    /\ task[s].pc = "dial"
    /\ outcome = "ok" => ~shut.cancelled
    /\ IF outcome = "fail"
       THEN task' = [task EXCEPT ![s].pc = "done", ![s].closed = 2,
                                 ![s].backend = "", ![s].dials = @ + 1, ![s].gone = FALSE,
                                 ![s].dialErr = TRUE]
       ELSE task' = [task EXCEPT ![s].pc = "select", ![s].backend = "",
                                 ![s].dials = @ + 1, ![s].server = "open"]
    /\ UNCHANGED <<backends, owner, byAddr, conn, sessions, sessionCount>>
    /\ UNCHANGED <<chainVars, buildVars, demuxVars, trackVars, shutVars, codecVars, primVars, ctxVars, idleVars, closeVars, pipeVars>>

\* Mutant: a session is made although the client is gone.
HcClientSelect_NoGoneCheck(s) ==
    /\ task[s].pc = "select"
    /\ task' = [task EXCEPT ![s].pc = "count", ![s].gone = FALSE]
    /\ UNCHANGED <<backends, owner, byAddr, conn, sessions, sessionCount>>
    /\ UNCHANGED <<chainVars, buildVars, demuxVars, trackVars, shutVars, codecVars, primVars, ctxVars, idleVars, closeVars, pipeVars>>

\* handleConnection: the select on clientConn.Context().Done(), whatever
\* Shutdown or the client have done since the dial returned.  With the
\* client gone the backend connection is closed and handleConnection
\* returns; otherwise it goes on to make the session.
HcClientSelect(s) ==
    /\ task[s].pc = "select"
    /\ IF task[s].gone
       THEN task' = [task EXCEPT ![s].pc = "done", ![s].gone = FALSE,
                                 ![s].server = "closed"]
       ELSE task' = [task EXCEPT ![s].pc = "count"]
    /\ UNCHANGED <<backends, owner, byAddr, conn, sessions, sessionCount>>
    /\ UNCHANGED <<chainVars, buildVars, demuxVars, trackVars, shutVars, codecVars, primVars, ctxVars, idleVars, closeVars, pipeVars>>

\* handleConnection: sessionID := h.sessionCount.Add(1).
HcSessionCountAdd(s) ==
    /\ task[s].pc = "count"
    /\ sessionCount' = sessionCount + 1
    /\ task' = [task EXCEPT ![s].pc = "store", ![s].sid = sessionCount + 1]
    /\ UNCHANGED <<backends, owner, byAddr, conn, sessions>>
    /\ UNCHANGED <<chainVars, buildVars, demuxVars, trackVars, shutVars, codecVars, primVars, ctxVars, idleVars, closeVars, pipeVars>>

\* handleConnection: h.sessions.Store(sessionID, session); the deferred
\* Delete is set up and session.bridge() is called, which touches nothing
\* of the handler.
HcSessionsStore(s) ==
    /\ task[s].pc = "store"
    /\ sessions' = sessions \cup {task[s].sid}
    /\ task' = [task EXCEPT ![s].pc = "bridge"]
    /\ UNCHANGED <<backends, owner, byAddr, conn, sessionCount>>
    /\ UNCHANGED <<chainVars, buildVars, demuxVars, trackVars, shutVars, codecVars, primVars, ctxVars, idleVars, closeVars, pipeVars>>

\* Mutant: the session stays in the table when the bridge has returned.
HcBridgeEnd_NoDelete(s) ==
    /\ task[s].pc = "bridge"
    /\ task' = [task EXCEPT ![s].pc = "done", ![s].sid = 0, ![s].gone = FALSE]
    /\ UNCHANGED <<backends, owner, byAddr, conn, sessions, sessionCount>>
    /\ UNCHANGED <<chainVars, buildVars, demuxVars, trackVars, shutVars, codecVars, primVars, ctxVars, idleVars, closeVars, pipeVars>>

\* handleConnection: session.bridge() has returned, at a moment the
\* handler does not decide, and the deferred h.sessions.Delete(sessionID)
\* runs; handleConnection returns.
HcBridgeEnd(s) ==
    /\ task[s].pc = "bridge"
    /\ task' = [task EXCEPT ![s].pc = "done", ![s].sid = 0, ![s].gone = FALSE]
    /\ sessions' = sessions \ {task[s].sid}
    /\ UNCHANGED <<backends, owner, byAddr, conn, sessionCount>>
    /\ UNCHANGED <<chainVars, buildVars, demuxVars, trackVars, shutVars, codecVars, primVars, ctxVars, idleVars, closeVars, pipeVars>>

\* The handler alone, on every kind of Context and InitialPacket.
NextOnConnect ==
    \/ \E s \in Conns, packet \in InitialPackets, value \in BackendValues :
          NewConn(s, packet, value)
    \/ \E s \in Conns : TermOnConnect(s)
    \/ \E s \in Conns : TermOnDisconnect(s)

SpecOnConnect == InitTerm /\ [][NextOnConnect]_vars

\* The correlation: the handler together with the forwarder and the accept
\* path up to the return of the dial, on one good and one bad Context, on
\* InitialPackets with two DCIDs and with none, and with later long-header
\* datagrams.
NextTerm ==
    \/ \E s \in Conns, packet \in {PktAA, PktBB, PktShort},
          value \in {Missing, StringValue("B1")} :
          NewConn(s, packet, value)
    \/ \E s \in Conns : TermOnConnect(s)
    \/ \E s \in Conns : TermOnDisconnect(s)
    \/ \E s \in Conns, a \in Addrs : Forward(s, a)
    \/ \E s \in Conns, packet \in LaterPackets : ForwardMore(s, packet)
    \/ \E s \in Conns : Accept(s)
    \/ \E s \in Conns : HcGetDCID(s)
    \/ \E s \in Conns : HcLoad(s)
    \/ \E s \in Conns : HcTrackerDelete(s)
    \/ \E s \in Conns : HcBackendsDelete(s)
    \/ \E s \in Conns, outcome \in {"fail", "ok"} : HcDial(s, outcome)

SpecTerm == InitTerm /\ [][NextTerm]_vars

\* The whole of handleConnection, with the session table: sessions with a
\* backend, whose DCIDs may be the same, that may disconnect at any time.
NextSession ==
    \/ \E s \in Conns, packet \in {PktAA, PktBB} :
          NewConn(s, packet, StringValue("B1"))
    \/ \E s \in Conns : TermOnConnect(s)
    \/ \E s \in Conns : TermOnDisconnect(s)
    \/ \E s \in Conns, a \in Addrs : Forward(s, a)
    \/ \E s \in Conns : Accept(s)
    \/ \E s \in Conns : HcGetDCID(s)
    \/ \E s \in Conns : HcLoad(s)
    \/ \E s \in Conns : HcTrackerDelete(s)
    \/ \E s \in Conns : HcBackendsDelete(s)
    \/ \E s \in Conns : ClientGone(s)
    \/ \E s \in Conns, outcome \in {"fail", "ok"} : HcDial(s, outcome)
    \/ \E s \in Conns : HcClientSelect(s)
    \/ \E s \in Conns : HcSessionCountAdd(s)
    \/ \E s \in Conns : HcSessionsStore(s)
    \/ \E s \in Conns : HcBridgeEnd(s)

SpecSession == InitTerm /\ [][NextSession]_vars

(***************************************************************************)
(* The DCID tracker on its own: ReadFrom, GetDCID and Delete run under the *)
(* tracker's mutex, so each is one step.  reads[a] logs the datagrams read *)
(* from a since a's entry was last deleted.                                *)
(***************************************************************************)
TrackPackets == {PktAA, PktBB, PktShort}

InitTracker ==
    /\ handlers = <<>>
    /\ built = FALSE
    /\ aliases = {}
    /\ mock = MockFresh
    /\ last = NoCall
    /\ registry = <<>>
    /\ configs = <<>>
    /\ build = <<>>
    /\ sess = <<>>
    /\ stopped = FALSE
    /\ backends = <<>>
    /\ owner = <<>>
    /\ byAddr = <<>>
    /\ conn = <<>>
    /\ task = <<>>
    /\ sessions = {}
    /\ sessionCount = 0
    /\ pw = NoWriter
    /\ pipe = NoPipe
    /\ closedSessions = {}
    /\ now = 0
    /\ lastActivity = <<>>
    /\ recv = NoRecv
    /\ values = <<>>
    /\ sets = <<>>
    /\ arg = <<>>
    /\ enc = NoValue
    /\ ret = NoOut
    /\ wire = <<>>
    /\ sent = <<>>
    /\ written = <<>>
    /\ pr = NoReader
    /\ rp = NoRead
    /\ got = <<>>
    /\ shut = NoShutdown
    /\ reads = [a \in Addrs |-> <<>>]

\* dcidTracker.ReadFrom returns a datagram from address a.
ReadFrom(a, packet) ==
    /\ Len(reads[a]) < MaxReads
    /\ byAddr' = TrackerReadFrom(byAddr, a, packet.bytes)
    /\ reads' = [reads EXCEPT ![a] = Append(@, packet)]
    /\ UNCHANGED <<backends, owner, conn, task, sessions, sessionCount>>
    /\ UNCHANGED <<chainVars, buildVars, demuxVars, shutVars, codecVars, primVars, ctxVars, idleVars, closeVars, pipeVars>>

\* dcidTracker.Delete(a).
Delete(a) ==
    /\ byAddr' = MapDelete(byAddr, a)
    /\ reads' = [reads EXCEPT ![a] = <<>>]
    /\ UNCHANGED <<backends, owner, conn, task, sessions, sessionCount>>
    /\ UNCHANGED <<chainVars, buildVars, demuxVars, shutVars, codecVars, primVars, ctxVars, idleVars, closeVars, pipeVars>>

NextTracker ==
    \/ \E a \in Addrs, packet \in TrackPackets : ReadFrom(a, packet)
    \/ \E a \in Addrs : Delete(a)

SpecTracker == InitTracker /\ [][NextTracker]_vars

(***************************************************************************)
(* TerminatorHandler.Shutdown against the accept path.  h.wg counts the    *)
(* accept loop and every handleConnection that has not returned.          *)
(***************************************************************************)
Running ==
    {s \in Conns : task[s].pc \in {"getdcid", "load", "untrack", "consume", "dial",
                                   "select", "count", "store", "bridge"}}

WgCounter == (IF shut.loop THEN 1 ELSE 0) + Cardinality(Running)

InitShutdown ==
    /\ handlers = <<>>
    /\ built = FALSE
    /\ aliases = {}
    /\ mock = MockFresh
    /\ last = NoCall
    /\ registry = <<>>
    /\ configs = <<>>
    /\ build = <<>>
    /\ sess = <<>>
    /\ stopped = FALSE
    /\ backends = <<>>
    /\ owner = <<>>
    /\ byAddr = <<>>
    /\ conn = [s \in Conns |-> NoConn]
    /\ task = [s \in Conns |-> NoTask]
    /\ sessions = {}
    /\ sessionCount = 0
    /\ pw = NoWriter
    /\ pipe = NoPipe
    /\ closedSessions = {}
    /\ now = 0
    /\ lastActivity = <<>>
    /\ recv = NoRecv
    /\ values = <<>>
    /\ sets = <<>>
    /\ arg = <<>>
    /\ enc = NoValue
    /\ ret = NoOut
    /\ wire = <<>>
    /\ sent = <<>>
    /\ written = <<>>
    /\ pr = NoReader
    /\ rp = NoRead
    /\ got = <<>>
    /\ reads = <<>>
    /\ shut = NoShutdown

\* The context the caller hands to Shutdown is done (its deadline passes or
\* it is cancelled); it may be done before the call.
CtxDone ==
    /\ ~shut.ctxDone
    /\ shut.pc # "returned"
    /\ shut' = [shut EXCEPT !.ctxDone = TRUE]
    /\ UNCHANGED <<chainVars, buildVars, demuxVars, termVars, trackVars, codecVars, primVars, ctxVars, idleVars, closeVars, pipeVars>>

\* Shutdown: h.cancel().
ShutdownCancel ==
    /\ shut.pc = "idle"
    /\ shut' = [shut EXCEPT !.pc = "cancelled", !.cancelled = TRUE]
    /\ UNCHANGED <<chainVars, buildVars, demuxVars, termVars, trackVars, codecVars, primVars, ctxVars, idleVars, closeVars, pipeVars>>

\* Shutdown: h.listener.Close() has returned.
ShutdownListenerClose ==
    /\ shut.pc = "cancelled"
    /\ shut' = [shut EXCEPT !.pc = "unlistened"]
    /\ UNCHANGED <<chainVars, buildVars, demuxVars, termVars, trackVars, codecVars, primVars, ctxVars, idleVars, closeVars, pipeVars>>

\* Shutdown: h.transport.Close() has returned.  What it does to the
\* connections the listener has accepted is decided by the QUIC library:
\* the client side of any set G of them is gone afterwards.
ShutdownTransportClose(G) ==
    /\ shut.pc = "unlistened"
    /\ G \subseteq Running
    /\ shut' = [shut EXCEPT !.pc = "closed"]
    /\ task' = [s \in Conns |-> IF s \in G THEN [task[s] EXCEPT !.gone = TRUE] ELSE task[s]]
    /\ UNCHANGED <<backends, owner, byAddr, conn, sessions, sessionCount>>
    /\ UNCHANGED <<chainVars, buildVars, demuxVars, trackVars, codecVars, primVars, ctxVars, idleVars, closeVars, pipeVars>>

\* acceptLoop: Accept returns an error once h.ctx is cancelled and the loop
\* returns (wg.Done()).
AcceptLoopExit ==
    /\ shut.loop
    /\ shut.cancelled
    /\ shut' = [shut EXCEPT !.loop = FALSE]
    /\ UNCHANGED <<chainVars, buildVars, demuxVars, termVars, trackVars, codecVars, primVars, ctxVars, idleVars, closeVars, pipeVars>>

\* Shutdown: h.sessions.Range is called.  Range on a sync.Map is no
\* snapshot: it goes through the table entry by entry while the
\* handleConnection goroutines store and delete; keys holds the sessions
\* that are in the table when the call starts.
ShutdownRange ==
    /\ shut.pc = "closed"
    /\ shut' = [shut EXCEPT !.pc = "ranging", !.keys = sessions]
    /\ UNCHANGED <<chainVars, buildVars, demuxVars, termVars, trackVars, codecVars, primVars, ctxVars, idleVars, closeVars, pipeVars>>

\* Shutdown: Range hands one session, in the table at that moment and not
\* handed over before, to the callback, which calls its Close.
ShutdownRangeVisit(id) ==
    /\ shut.pc = "ranging"
    /\ id \in sessions \ closedSessions
    /\ closedSessions' = closedSessions \cup {id}
    /\ UNCHANGED <<chainVars, buildVars, demuxVars, termVars, trackVars, shutVars, codecVars, primVars, ctxVars, idleVars, pipeVars>>

\* Shutdown: Range returns.  A session that was in the table during the
\* whole call has been handed over; one stored or deleted meanwhile may or
\* may not have been.
ShutdownRangeReturn ==
    /\ shut.pc = "ranging"
    /\ (shut.keys \cap sessions) \subseteq closedSessions
    /\ shut' = [shut EXCEPT !.pc = "ranged", !.keys = {}]
    /\ UNCHANGED <<chainVars, buildVars, demuxVars, termVars, trackVars, codecVars, primVars, ctxVars, idleVars, closeVars, pipeVars>>

\* Shutdown: the goroutine that waits on h.wg is started and Shutdown goes
\* on to its select.
ShutdownGoWait ==
    /\ shut.pc = "ranged"
    /\ shut' = [shut EXCEPT !.pc = "waiting"]
    /\ UNCHANGED <<chainVars, buildVars, demuxVars, termVars, trackVars, codecVars, primVars, ctxVars, idleVars, closeVars, pipeVars>>

\* The waiting goroutine: h.wg.Wait() returns and done is closed.
WaitDone ==
    /\ shut.pc \in {"waiting", "returned"}
    /\ ~shut.done
    /\ WgCounter = 0
    /\ shut' = [shut EXCEPT !.done = TRUE]
    /\ UNCHANGED <<chainVars, buildVars, demuxVars, termVars, trackVars, codecVars, primVars, ctxVars, idleVars, closeVars, pipeVars>>

\* Shutdown: the select returns nil when done is closed and ctx.Err() when
\* the caller's context is done; with both ready either is taken.
ShutdownReturn(r) ==
    /\ shut.pc = "waiting"
    /\ \/ r = "nil" /\ shut.done
       \/ r = "ctxErr" /\ shut.ctxDone
    /\ shut' = [shut EXCEPT !.pc = "returned", !.ret = r]
    /\ UNCHANGED <<chainVars, buildVars, demuxVars, termVars, trackVars, codecVars, primVars, ctxVars, idleVars, closeVars, pipeVars>>

\* Sessions with a backend arrive and are accepted while Shutdown runs,
\* each with a DCID of its own.
NextShutdown ==
    \/ \E s \in Conns : \E packet \in {IF s = 1 THEN PktAA ELSE IF s = 2 THEN PktBB ELSE PktCC} :
          NewConn(s, packet, StringValue("B1"))
    \/ \E s \in Conns : TermOnConnect(s)
    \/ \E s \in Conns, a \in Addrs : Forward(s, a)
    \/ \E s \in Conns : Accept(s)
    \/ \E s \in Conns : HcGetDCID(s)
    \/ \E s \in Conns : HcLoad(s)
    \/ \E s \in Conns : HcTrackerDelete(s)
    \/ \E s \in Conns : HcBackendsDelete(s)
    \/ \E s \in Conns : ClientGone(s)
    \/ \E s \in Conns, outcome \in {"fail", "ok"} : HcDial(s, outcome)
    \/ \E s \in Conns : HcClientSelect(s)
    \/ \E s \in Conns : HcSessionCountAdd(s)
    \/ \E s \in Conns : HcSessionsStore(s)
    \/ \E s \in Conns : HcBridgeEnd(s)
    \/ CtxDone
    \/ ShutdownCancel
    \/ ShutdownListenerClose
    \/ \E G \in SUBSET Conns : ShutdownTransportClose(G)
    \/ AcceptLoopExit
    \/ ShutdownRange
    \/ \E id \in 1..MaxConns : ShutdownRangeVisit(id)
    \/ ShutdownRangeReturn
    \/ ShutdownGoWait
    \/ WaitDone
    \/ \E r \in {"nil", "ctxErr"} : ShutdownReturn(r)

SpecShutdown == InitShutdown /\ [][NextShutdown]_vars

(***************************************************************************)
(* The handler of terminator_handler.go, which wraps the terminator        *)
(* library: OnConnect and OnDisconnect are those above, with the registry  *)
(* behind RegisterBackend and UnregisterBackend, and Shutdown(ctx) is      *)
(* "return h.term.Close()".  Close is a call into the library: it gets no  *)
(* context, and it returns nil or an error of its own at a moment the      *)
(* handler does not decide.                                                *)
(***************************************************************************)
CloseResults == {"nil", "closeErr"}

\* TerminatorHandler.Shutdown (terminator_handler.go): h.term.Close() is
\* called; ctx is not looked at.
HandlerShutdown ==
    /\ shut.pc = "idle"
    /\ shut' = [shut EXCEPT !.pc = "closing"]
    /\ UNCHANGED <<chainVars, buildVars, demuxVars, termVars, trackVars, codecVars, primVars, ctxVars, idleVars, closeVars, pipeVars>>

\* TerminatorHandler.Shutdown (terminator_handler.go): h.term.Close() has
\* returned r and Shutdown returns it.
HandlerShutdownReturn(r) ==
    /\ shut.pc = "closing"
    /\ r \in CloseResults
    /\ shut' = [shut EXCEPT !.pc = "returned", !.ret = r]
    /\ UNCHANGED <<chainVars, buildVars, demuxVars, termVars, trackVars, codecVars, primVars, ctxVars, idleVars, closeVars, pipeVars>>

NextHandler ==
    \/ \E s \in Conns, packet \in {PktAA, PktBB, PktShort},
          value \in {Missing, StringValue("B1")} :
          NewConn(s, packet, value)
    \/ \E s \in Conns : TermOnConnect(s)
    \/ \E s \in Conns : TermOnDisconnect(s)
    \/ CtxDone
    \/ HandlerShutdown
    \/ \E r \in CloseResults : HandlerShutdownReturn(r)

SpecHandler == InitTerm /\ [][NextHandler]_vars

(***************************************************************************)
(* Framed packets (pkg/protohytale/packet.go): a PacketWriter emits frames *)
(* into a byte stream and a PacketReader takes them out again.  Every Read *)
(* of the underlying stream hands over a non-empty piece of any length     *)
(* that fits into the buffer, and blocks while the stream has nothing.     *)
(***************************************************************************)
HeaderSize == 8
MaxPacketSize == 16 * 1024 * 1024
DefaultBufSize == 64 * 1024

\* The packets handed to Write.  Bytes below 128: whatever part of a stream
\* is taken for a header, its length and id stay below 2^31.
Packets ==
    { [ID |-> 258, Data |-> <<>>], [ID |-> 258, Data |-> <<0, 127>>],
      [ID |-> 0, Data |-> <<1, 2, 3, 4, 5, 6, 7, 8, 9>>] }
CodecSizes == {HeaderSize, 2 * HeaderSize}
\* The counts tried for a stream write of len bytes: nothing, one byte, a
\* half, all but one, all.
Counts(len) == {0, 1, len \div 2, len - 1, len} \cap 0..len
ReaderSizes == {8, 16, DefaultBufSize, MaxPacketSize}

\* binary.LittleEndian.PutUint32
PutUint32(v) ==
    <<v % 256, (v \div 256) % 256, (v \div 65536) % 256, (v \div 16777216) % 256>>

\* binary.LittleEndian.Uint32(b[at:]), at counted from 0
Uint32(b, at) ==
    b[at + 1] + 256 * b[at + 2] + 65536 * b[at + 3] + 16777216 * b[at + 4]

\* Mutant: a writer that puts the packet id before the length.
FrameBytes_IdFirst(id, data) ==
    PutUint32(id) \o PutUint32(Len(data)) \o data

\* PacketWriter.Write: the bytes handed to the stream (uint32(len(data)) is
\* len(data) for every payload below 4 GiB).
FrameBytes(id, data) ==
    PutUint32(Len(data)) \o PutUint32(id) \o data

\* NewPacketReaderSize
NewPacketReaderSize(size) ==
    [buf |-> <<>>, size |-> IF size < HeaderSize THEN DefaultBufSize ELSE size, offset |-> 0]

Available(r) == Len(r.buf) - r.offset

\* Mutant: compaction that resets the offset without moving the unread bytes.
ensureBytes_NoCopy(r, n) ==
    IF Available(r) >= n
    THEN r
    ELSE LET c == IF r.offset > 0
                  THEN [r EXCEPT !.buf = SubSeq(r.buf, 1, Available(r)), !.offset = 0]
                  ELSE r
             newSize == IF c.size * 2 < n THEN n ELSE c.size * 2
         IN  IF n > c.size THEN [c EXCEPT !.size = newSize] ELSE c

\* ensureBytes up to its read loop: nothing to do when n bytes are
\* available; otherwise the unread bytes move to the start of the buffer
\* and the buffer grows to hold n bytes.
ensureBytes(r, n) ==
    IF Available(r) >= n
    THEN r
    ELSE LET c == IF r.offset > 0
                  THEN [r EXCEPT !.buf = SubSeq(r.buf, r.offset + 1, Len(r.buf)),
                                 !.offset = 0]
                  ELSE r
             newSize == IF c.size * 2 < n THEN n ELSE c.size * 2
         IN  IF n > c.size THEN [c EXCEPT !.size = newSize] ELSE c

InitCodec ==
    /\ handlers = <<>>
    /\ built = FALSE
    /\ aliases = {}
    /\ mock = MockFresh
    /\ last = NoCall
    /\ registry = <<>>
    /\ configs = <<>>
    /\ build = <<>>
    /\ sess = <<>>
    /\ stopped = FALSE
    /\ backends = <<>>
    /\ owner = <<>>
    /\ byAddr = <<>>
    /\ conn = [s \in Conns |-> NoConn]
    /\ task = [s \in Conns |-> NoTask]
    /\ sessions = {}
    /\ sessionCount = 0
    /\ pw = NoWriter
    /\ pipe = NoPipe
    /\ closedSessions = {}
    /\ now = 0
    /\ lastActivity = <<>>
    /\ recv = NoRecv
    /\ values = <<>>
    /\ sets = <<>>
    /\ arg = <<>>
    /\ enc = NoValue
    /\ ret = NoOut
    /\ reads = <<>>
    /\ shut = NoShutdown
    /\ wire = <<>>
    /\ sent = <<>>
    /\ written = <<>>
    /\ \E size \in CodecSizes : pr = NewPacketReaderSize(size)
    /\ rp = NoRead
    /\ got = <<>>

\* The stream the reader is set on, and the stream pw.w writes to.
Cur == [wire |-> wire, sent |-> sent, written |-> written, got |-> got,
        lost |-> pipe.lost, torn |-> pipe.torn]
Target == IF pw.same THEN Cur ELSE pipe.other

\* pw.w.Write(p) on stream t takes the first n bytes of p and returns a nil
\* error (ok) or an error; PacketWriter does not look at the count.
StreamWrite(t, p, n, ok) ==
    [t EXCEPT !.wire = @ \o SubSeq(p, 1, n),
              !.sent = @ \o SubSeq(p, 1, n),
              !.torn = @ \/ ~ok]

\* What a stream Write may return for p: any count up to len(p), and an
\* error whenever the count is short (io.Writer); an error may also come
\* with the full count.
WriteReturns(p, n, ok) == n \in 0..Len(p) /\ (n < Len(p) => ~ok)

\* The writer's stream becomes t.
SetTarget(t) ==
    IF pw.same
    THEN /\ wire' = t.wire
         /\ sent' = t.sent
         /\ written' = t.written
         /\ pipe' = [pipe EXCEPT !.torn = t.torn]
    ELSE /\ pipe' = [pipe EXCEPT !.other = t]
         /\ UNCHANGED <<wire, sent, written>>

\* PacketWriter.Write(id, data) up to its first stream write: the header is
\* put into pw.buf and handed to pw.w.Write.  An error ends the call; so
\* does an empty payload, with nil; otherwise the payload is written next.
Write(id, data, n, ok) ==
    /\ pw.pc = "idle"
    /\ pw.calls < MaxFrames
    /\ LET header == SubSeq(FrameBytes(id, data), 1, HeaderSize)
           t == StreamWrite(Target, header, n, ok)
       IN  /\ WriteReturns(header, n, ok)
           /\ IF ok /\ Len(data) > 0
              THEN /\ pw' = [pw EXCEPT !.pc = "data", !.id = id, !.data = data,
                                       !.calls = @ + 1]
                   /\ SetTarget(t)
              ELSE /\ pw' = [pw EXCEPT !.calls = @ + 1]
                   /\ SetTarget(IF ok
                                THEN [t EXCEPT !.written = Append(@, [ID |-> id, Data |-> data])]
                                ELSE t)
    /\ UNCHANGED <<pr, rp, got>>
    /\ UNCHANGED <<chainVars, buildVars, demuxVars, termVars, trackVars, shutVars, primVars, ctxVars, idleVars, closeVars>>

\* PacketWriter.Write, the second stream write: pw.w.Write(data); the call
\* returns its error, or nil.
WriteData(n, ok) ==
    /\ pw.pc = "data"
    /\ WriteReturns(pw.data, n, ok)
    /\ LET t == StreamWrite(Target, pw.data, n, ok)
       IN  SetTarget(IF ok
                     THEN [t EXCEPT !.written = Append(@, [ID |-> pw.id, Data |-> pw.data])]
                     ELSE t)
    /\ pw' = [pw EXCEPT !.pc = "idle", !.id = 0, !.data = <<>>]
    /\ UNCHANGED <<pr, rp, got>>
    /\ UNCHANGED <<chainVars, buildVars, demuxVars, termVars, trackVars, shutVars, primVars, ctxVars, idleVars, closeVars>>

\* PacketWriter.Reset(w): the writer is set on the other stream.
WriterReset ==
    /\ pw.pc = "idle"
    /\ pipe.resets < MaxResets
    /\ pw' = [pw EXCEPT !.same = ~@]
    /\ pipe' = [pipe EXCEPT !.resets = @ + 1]
    /\ UNCHANGED <<wire, sent, written, pr, rp, got>>
    /\ UNCHANGED <<chainVars, buildVars, demuxVars, termVars, trackVars, shutVars, primVars, ctxVars, idleVars, closeVars>>

\* PacketReader.Reset(r), between two calls: buffered and offset go to 0,
\* so the bytes taken from the stream and not yet returned are dropped; r
\* is the stream the reader was on already (same) or the other one.
ReaderReset(same) ==
    /\ rp.pc = "idle"
    /\ pipe.resets < MaxResets
    /\ pr' = [pr EXCEPT !.buf = <<>>, !.offset = 0]
    /\ LET left == [Cur EXCEPT !.lost = @ \/ Available(pr) > 0]
       IN  IF same
           THEN /\ pipe' = [pipe EXCEPT !.lost = left.lost, !.resets = @ + 1]
                /\ UNCHANGED <<wire, sent, written, got, pw>>
           ELSE /\ wire' = pipe.other.wire
                /\ sent' = pipe.other.sent
                /\ written' = pipe.other.written
                /\ got' = pipe.other.got
                /\ pipe' = [lost |-> pipe.other.lost, torn |-> pipe.other.torn,
                            resets |-> pipe.resets + 1, other |-> left]
                /\ pw' = [pw EXCEPT !.same = ~@]
    /\ UNCHANGED rp
    /\ UNCHANGED <<chainVars, buildVars, demuxVars, termVars, trackVars, shutVars, primVars, ctxVars, idleVars, closeVars>>

\* ReadPacket is called: ensureBytes(HeaderSize) up to its read loop.
ReadPacket ==
    /\ rp.pc = "idle"
    /\ Len(got) <= MaxFrames
    /\ pr' = ensureBytes(pr, HeaderSize)
    /\ rp' = [rp EXCEPT !.pc = "header", !.n = HeaderSize, !.fn = "ReadPacket"]
    /\ UNCHANGED <<wire, sent, written, got>>
    /\ UNCHANGED <<chainVars, buildVars, demuxVars, termVars, trackVars, shutVars, primVars, ctxVars, idleVars, closeVars, pipeVars>>

\* ensureBytes, one turn of the read loop: pr.r.Read(pr.buf[pr.buffered:])
\* returns the next k bytes of the stream.
Read(k) ==
    /\ rp.pc \in {"header", "body"}
    /\ Len(pr.buf) < rp.n
    /\ k >= 1
    /\ k <= Len(wire)
    /\ k <= pr.size - Len(pr.buf)
    /\ pr' = [pr EXCEPT !.buf = @ \o SubSeq(wire, 1, k)]
    /\ wire' = SubSeq(wire, k + 1, Len(wire))
    /\ rp' = [rp EXCEPT !.split = @ \/ (rp.pc = "header" /\ Len(pr.buf) + k < HeaderSize)]
    /\ UNCHANGED <<sent, written, got>>
    /\ UNCHANGED <<chainVars, buildVars, demuxVars, termVars, trackVars, shutVars, primVars, ctxVars, idleVars, closeVars, pipeVars>>

\* Mutant: a sanity check that also rejects a length of MaxPacketSize.
TooLarge_Inclusive(length) == length >= MaxPacketSize

\* The sanity check of ReadPacket and ReadPacketNoCopy.
TooLarge(length) == length > MaxPacketSize

\* ReadPacket and ReadPacketNoCopy with the header available: the length and
\* the id are parsed, a length above MaxPacketSize ends the call with
\* ErrPacketTooLarge, otherwise ensureBytes(totalSize) runs up to its read
\* loop.
ReadHeader ==
    /\ rp.pc = "header"
    /\ Available(pr) >= rp.n
    /\ LET length == Uint32(pr.buf, pr.offset)
           totalSize == HeaderSize + length
       IN  IF TooLarge(length)
           THEN /\ got' = Append(got, [err |-> "ErrPacketTooLarge"])
                /\ rp' = [rp EXCEPT !.pc = "idle", !.n = 0]
                /\ UNCHANGED pr
           ELSE /\ pr' = ensureBytes(pr, totalSize)
                /\ rp' = [rp EXCEPT !.pc = "body", !.n = totalSize]
                /\ UNCHANGED got
    /\ UNCHANGED <<wire, sent, written>>
    /\ UNCHANGED <<chainVars, buildVars, demuxVars, termVars, trackVars, shutVars, primVars, ctxVars, idleVars, closeVars, pipeVars>>

\* ReadPacket and ReadPacketNoCopy with the whole frame available: the
\* payload is copied out (ReadPacketNoCopy: sliced out of the buffer), the
\* offset advances and the packet is returned.
ReadBody ==
    /\ rp.pc = "body"
    /\ Available(pr) >= rp.n
    /\ got' = Append(got, [ID   |-> Uint32(pr.buf, pr.offset + 4),
                           Data |-> SubSeq(pr.buf, pr.offset + HeaderSize + 1,
                                           pr.offset + rp.n)])
    /\ pr' = [pr EXCEPT !.offset = @ + rp.n]
    /\ rp' = [rp EXCEPT !.pc = "idle", !.n = 0]
    /\ UNCHANGED <<wire, sent, written>>
    /\ UNCHANGED <<chainVars, buildVars, demuxVars, termVars, trackVars, shutVars, primVars, ctxVars, idleVars, closeVars, pipeVars>>

NextCodec ==
    \/ \E p \in Packets, n \in Counts(HeaderSize), ok \in BOOLEAN : Write(p.ID, p.Data, n, ok)
    \/ \E n \in 0..9, ok \in BOOLEAN : n \in Counts(Len(pw.data)) /\ WriteData(n, ok)
    \/ ReadPacket
    \/ \E k \in 1..(MaxFrames * (HeaderSize + 9)) : Read(k)
    \/ ReadHeader
    \/ ReadBody

\* One stream: the writer's stream writes succeed or fail after any of the
\* counts, the reader takes the bytes in pieces.
SpecCodec == InitCodec /\ [][NextCodec]_vars

\* Two streams: the writer and the reader are reset from one to the other;
\* a stream write takes all of its bytes, or fails and takes none.
NextPipe ==
    \/ \E p \in Packets, ok \in BOOLEAN :
          Write(p.ID, p.Data, IF ok THEN HeaderSize ELSE 0, ok)
    \/ \E ok \in BOOLEAN : WriteData(IF ok THEN Len(pw.data) ELSE 0, ok)
    \/ WriterReset
    \/ \E same \in BOOLEAN : ReaderReset(same)
    \/ ReadPacket
    \/ \E k \in 1..(MaxFrames * (HeaderSize + 9)) : Read(k)
    \/ ReadHeader
    \/ ReadBody

SpecPipe == InitCodec /\ [][NextPipe]_vars

(***************************************************************************)
(* The PacketReader on a stream that ends: the stream holds frames, headers *)
(* whose length field is at and just above MaxPacketSize, and may stop      *)
(* anywhere.  A Read at the end of the stream returns io.EOF, alone or      *)
(* together with the last bytes (io.Reader allows both).                    *)
(***************************************************************************)
StreamPieces ==
    { FrameBytes(258, <<>>),
      FrameBytes(258, <<0, 1>>),
      PutUint32(MaxPacketSize) \o PutUint32(1),
      PutUint32(MaxPacketSize + 1) \o PutUint32(1) }

RECURSIVE Concats(_)
Concats(n) ==
    IF n = 0
    THEN {<<>>}
    ELSE Concats(n - 1) \cup {s \o piece : s \in Concats(n - 1), piece \in StreamPieces}

Streams == UNION {{SubSeq(s, 1, k) : k \in 0..Len(s)} : s \in Concats(MaxFrames)}

InitStream ==
    /\ handlers = <<>>
    /\ built = FALSE
    /\ aliases = {}
    /\ mock = MockFresh
    /\ last = NoCall
    /\ registry = <<>>
    /\ configs = <<>>
    /\ build = <<>>
    /\ sess = <<>>
    /\ stopped = FALSE
    /\ backends = <<>>
    /\ owner = <<>>
    /\ byAddr = <<>>
    /\ conn = [s \in Conns |-> NoConn]
    /\ task = [s \in Conns |-> NoTask]
    /\ sessions = {}
    /\ sessionCount = 0
    /\ pw = NoWriter
    /\ pipe = NoPipe
    /\ closedSessions = {}
    /\ now = 0
    /\ lastActivity = <<>>
    /\ recv = NoRecv
    /\ values = <<>>
    /\ sets = <<>>
    /\ arg = <<>>
    /\ enc = NoValue
    /\ ret = NoOut
    /\ reads = <<>>
    /\ shut = NoShutdown
    /\ wire \in Streams
    /\ sent = wire
    /\ written = <<>>
    /\ \E size \in ReaderSizes : pr = NewPacketReaderSize(size)
    /\ rp = NoRead
    /\ got = <<>>

\* ReadPacketNoCopy is called: ensureBytes(HeaderSize) up to its read loop.
ReadPacketNoCopy ==
    /\ rp.pc = "idle"
    /\ Len(got) <= MaxFrames
    /\ pr' = ensureBytes(pr, HeaderSize)
    /\ rp' = [rp EXCEPT !.pc = "header", !.n = HeaderSize, !.fn = "ReadPacketNoCopy"]
    /\ UNCHANGED <<wire, sent, written, got>>
    /\ UNCHANGED <<chainVars, buildVars, demuxVars, termVars, trackVars, shutVars, primVars, ctxVars, idleVars, closeVars, pipeVars>>

\* ensureBytes, the turn of the read loop that meets the end of the stream:
\* Read returns the k bytes that were left (k may be 0) and io.EOF; the call
\* ends with ErrUnexpectedEOF when 0 < buffered < n and with io.EOF
\* otherwise.
ReadEOF(k) ==
    /\ rp.pc \in {"header", "body"}
    /\ Len(pr.buf) < rp.n
    /\ k = Len(wire)
    /\ k <= pr.size - Len(pr.buf)
    /\ pr' = [pr EXCEPT !.buf = @ \o wire]
    /\ wire' = <<>>
    /\ LET buffered == Len(pr.buf) + k
       IN  got' = Append(got, [err |-> IF buffered > 0 /\ buffered < rp.n
                                       THEN "ErrUnexpectedEOF"
                                       ELSE "EOF"])
    /\ rp' = [rp EXCEPT !.pc = "idle", !.n = 0]
    /\ UNCHANGED <<sent, written>>
    /\ UNCHANGED <<chainVars, buildVars, demuxVars, termVars, trackVars, shutVars, primVars, ctxVars, idleVars, closeVars, pipeVars>>

MaxStream == MaxFrames * (HeaderSize + 2)

NextStream ==
    \/ ReadPacket
    \/ ReadPacketNoCopy
    \/ \E k \in 1..MaxStream : Read(k)
    \/ \E k \in 0..MaxStream : ReadEOF(k)
    \/ ReadHeader
    \/ ReadBody

SpecStream == InitStream /\ [][NextStream]_vars

(***************************************************************************)
(* Codec primitives (pkg/protohytale: VarInt, strings, fixed-width         *)
(* readers).  A uint32 is kept as two 16-bit halves, so that all of        *)
(* [0, 2^32) is there and a shift drops the bits that leave the 32-bit     *)
(* word; a byte slice is a sequence of numbers in 0..255.                  *)
(***************************************************************************)
U32(hi, lo) == [hi |-> hi, lo |-> lo]
Zero32 == U32(0, 0)

\* a | b on non-negative integers
RECURSIVE BitOr(_, _)
BitOr(a, b) ==
    IF a = 0 THEN b
    ELSE IF b = 0 THEN a
    ELSE (IF a % 2 = 1 \/ b % 2 = 1 THEN 1 ELSE 0) + 2 * BitOr(a \div 2, b \div 2)

Or32(a, b) == U32(BitOr(a.hi, b.hi), BitOr(a.lo, b.lo))

\* uint32(g) << s for a 7-bit group g: the bits above bit 31 are lost
Shl32(g, s) ==
    IF s >= 16
    THEN U32((g * 2^(s - 16)) % 65536, 0)
    ELSE U32((g * 2^s) \div 65536, (g * 2^s) % 65536)

\* Mutant: a shift by 8 bits.
Shr7_By8(v) == U32(v.hi \div 256, (v.lo \div 256) + (v.hi % 256) * 256)

\* value >>= 7
Shr7(v) == U32(v.hi \div 128, (v.lo \div 128) + (v.hi % 128) * 512)

MaxStringLength == 256

\* Mutant: the end of the input is looked at before the count of bytes.
RECURSIVE readVarIntFrom_EOFFirst(_, _, _, _)
readVarIntFrom_EOFFirst(data, i, result, shift) ==
    IF i >= Len(data)
    THEN [value |-> Zero32, n |-> 0, err |-> "ErrUnexpectedEOF"]
    ELSE IF i >= 5
    THEN [value |-> Zero32, n |-> 0, err |-> "ErrVarIntTooLong"]
    ELSE LET b == data[i + 1]
             r == Or32(result, Shl32(b % 128, shift))
         IN  IF b \div 128 = 0
             THEN [value |-> r, n |-> i + 1, err |-> "nil"]
             ELSE readVarIntFrom_EOFFirst(data, i + 1, r, shift + 7)

\* The loop of ReadVarInt from its i-th turn on.
RECURSIVE readVarIntFrom(_, _, _, _)
readVarIntFrom(data, i, result, shift) ==
    IF i >= 5
    THEN [value |-> Zero32, n |-> 0, err |-> "ErrVarIntTooLong"]
    ELSE IF i >= Len(data)
    THEN [value |-> Zero32, n |-> 0, err |-> "ErrUnexpectedEOF"]
    ELSE LET b == data[i + 1]
             r == Or32(result, Shl32(b % 128, shift))
         IN  IF b \div 128 = 0
             THEN [value |-> r, n |-> i + 1, err |-> "nil"]
             ELSE readVarIntFrom(data, i + 1, r, shift + 7)

ReadVarInt(data) == readVarIntFrom(data, 0, Zero32, 0)

RECURSIVE WriteVarInt(_)
WriteVarInt(value) ==
    LET b == value.lo % 128
        rest == Shr7(value)
    IN  IF rest # Zero32
        THEN <<b + 128>> \o WriteVarInt(rest)
        ELSE <<b>>

VarIntSize(value) ==
    IF value.hi = 0 /\ value.lo < 128 THEN 1
    ELSE IF value.hi = 0 /\ value.lo < 16384 THEN 2
    ELSE IF value.hi < 32 THEN 3
    ELSE IF value.hi < 4096 THEN 4
    ELSE 5

\* Mutant: the first byte of the string is taken from the length prefix.
ReadString_OffByOne(data) ==
    LET v == ReadVarInt(data)
        length == v.value
        end == v.n + length.lo
    IN  IF v.err # "nil"
        THEN [value |-> <<>>, n |-> 0, err |-> v.err]
        ELSE IF length.hi > 0 \/ length.lo > MaxStringLength
        THEN [value |-> <<>>, n |-> 0, err |-> "ErrStringTooLong"]
        ELSE IF end > Len(data)
        THEN [value |-> <<>>, n |-> 0, err |-> "ErrUnexpectedEOF"]
        ELSE [value |-> SubSeq(data, v.n, end - 1), n |-> end, err |-> "nil"]

\* Mutant: the bytes are looked for before the length is checked.
ReadString_EOFFirst(data) ==
    LET v == ReadVarInt(data)
        length == v.value
        end == v.n + length.lo
    IN  IF v.err # "nil"
        THEN [value |-> <<>>, n |-> 0, err |-> v.err]
        ELSE IF end > Len(data)
        THEN [value |-> <<>>, n |-> 0, err |-> "ErrUnexpectedEOF"]
        ELSE IF length.hi > 0 \/ length.lo > MaxStringLength
        THEN [value |-> <<>>, n |-> 0, err |-> "ErrStringTooLong"]
        ELSE [value |-> SubSeq(data, v.n + 1, end), n |-> end, err |-> "nil"]

ReadString(data) ==
    LET v == ReadVarInt(data)
        length == v.value
        end == v.n + length.lo
    IN  IF v.err # "nil"
        THEN [value |-> <<>>, n |-> 0, err |-> v.err]
        ELSE IF length.hi > 0 \/ length.lo > MaxStringLength
        THEN [value |-> <<>>, n |-> 0, err |-> "ErrStringTooLong"]
        ELSE IF end > Len(data)
        THEN [value |-> <<>>, n |-> 0, err |-> "ErrUnexpectedEOF"]
        ELSE [value |-> SubSeq(data, v.n + 1, end), n |-> end, err |-> "nil"]

\* WriteString: uint32(len(s)) as a VarInt, then the bytes of s
WriteString(str) == WriteVarInt(U32(Len(str) \div 65536, Len(str) % 65536)) \o str

ZeroBytes(n) == [i \in 1..n |-> 0]

ReadUUID(data) ==
    IF Len(data) < 16
    THEN [value |-> ZeroBytes(16), n |-> 0, err |-> "ErrUnexpectedEOF"]
    ELSE [value |-> SubSeq(data, 1, 16), n |-> 16, err |-> "nil"]

ReadUint8(data) ==
    IF Len(data) < 1
    THEN [value |-> 0, n |-> 0, err |-> "ErrUnexpectedEOF"]
    ELSE [value |-> data[1], n |-> 1, err |-> "nil"]

\* binary.LittleEndian.Uint16(b[at:]), at counted from 0
Uint16(b, at) == b[at + 1] + 256 * b[at + 2]

ReadUint16LE(data) ==
    IF Len(data) < 2
    THEN [value |-> 0, n |-> 0, err |-> "ErrUnexpectedEOF"]
    ELSE [value |-> Uint16(data, 0), n |-> 2, err |-> "nil"]

\* binary.LittleEndian.Uint32(b[at:]) over the whole range of uint32
Uint32Wide(b, at) == U32(Uint16(b, at + 2), Uint16(b, at))

ReadUint32LE(data) ==
    IF Len(data) < 4
    THEN [value |-> Zero32, n |-> 0, err |-> "ErrUnexpectedEOF"]
    ELSE [value |-> Uint32Wide(data, 0), n |-> 4, err |-> "nil"]

ReadUint64LE(data) ==
    IF Len(data) < 8
    THEN [value |-> [hi |-> Zero32, lo |-> Zero32], n |-> 0, err |-> "ErrUnexpectedEOF"]
    ELSE [value |-> [hi |-> Uint32Wide(data, 4), lo |-> Uint32Wide(data, 0)],
          n |-> 8, err |-> "nil"]

\* int32(u): the two's complement reading of a 32-bit word
Int32(u) ==
    IF u.hi < 32768
    THEN [neg |-> FALSE, mag |-> u]
    ELSE [neg |-> TRUE,
          mag |-> IF u.lo = 0 THEN U32(65536 - u.hi, 0) ELSE U32(65535 - u.hi, 65536 - u.lo)]

ReadInt32LE(data) ==
    IF Len(data) < 4
    THEN [value |-> Int32(Zero32), n |-> 0, err |-> "ErrUnexpectedEOF"]
    ELSE [value |-> Int32(Uint32Wide(data, 0)), n |-> 4, err |-> "nil"]

\* math.Float32frombits: sign, biased exponent and fraction of the word
Float32frombits(u) ==
    [sign |-> u.hi \div 32768, exp |-> (u.hi \div 128) % 256,
     mant |-> (u.hi % 128) * 65536 + u.lo]

ReadFloat32LE(data) ==
    IF Len(data) < 4
    THEN [value |-> Float32frombits(Zero32), n |-> 0, err |-> "ErrUnexpectedEOF"]
    ELSE [value |-> Float32frombits(Uint32Wide(data, 0)), n |-> 4, err |-> "nil"]

\* (sign << 31) | (exp << 23) | (mant << 13) for mant < 2^10
Float32Bits(sign, exp, mant) ==
    U32(sign * 32768 + exp * 128 + (mant * 8192) \div 65536, (mant * 8192) % 65536)

\* float16ToFloat32, the loop that normalises a subnormal
RECURSIVE normalise(_, _)
normalise(mant, exp) ==
    IF (mant \div 1024) % 2 = 0
    THEN normalise(mant * 2, exp - 1)
    ELSE [mant |-> mant % 1024, exp |-> exp]

float16ToFloat32(h) ==
    LET sign == (h \div 32768) % 2
        exp == (h \div 1024) % 32
        mant == h % 1024
    IN  Float32frombits(
            IF exp = 0
            THEN IF mant = 0
                 THEN Float32Bits(sign, 0, 0)
                 ELSE LET nm == normalise(mant, 127 - 14)
                      IN  Float32Bits(sign, nm.exp, nm.mant)
            ELSE IF exp = 31
            THEN Float32Bits(sign, 255, mant)
            ELSE Float32Bits(sign, exp + 127 - 15, mant))

ReadFloat16(data) ==
    IF Len(data) < 2
    THEN [value |-> Float32frombits(Zero32), n |-> 0, err |-> "ErrUnexpectedEOF"]
    ELSE [value |-> float16ToFloat32(Uint16(data, 0)), n |-> 2, err |-> "nil"]

\* ReadBytes(data, n) for n >= 0
ReadBytes(data, n) ==
    IF Len(data) < n
    THEN [value |-> <<>>, n |-> 0, err |-> "ErrUnexpectedEOF"]
    ELSE [value |-> SubSeq(data, 1, n), n |-> n, err |-> "nil"]

\* Mutant: a missing port is reported with the string's bytes as consumed.
ReadHostAddress_KeepN(data) ==
    LET h == ReadString(data)
    IN  IF h.err # "nil"
        THEN [value |-> [host |-> <<>>, port |-> 0], n |-> 0, err |-> h.err]
        ELSE IF Len(data) < h.n + 2
        THEN [value |-> [host |-> <<>>, port |-> 0], n |-> h.n, err |-> "ErrUnexpectedEOF"]
        ELSE [value |-> [host |-> h.value, port |-> Uint16(data, h.n)],
              n |-> h.n + 2, err |-> "nil"]

ReadHostAddress(data) ==
    LET h == ReadString(data)
    IN  IF h.err # "nil"
        THEN [value |-> [host |-> <<>>, port |-> 0], n |-> 0, err |-> h.err]
        ELSE IF Len(data) < h.n + 2
        THEN [value |-> [host |-> <<>>, port |-> 0], n |-> 0, err |-> "ErrUnexpectedEOF"]
        ELSE [value |-> [host |-> h.value, port |-> Uint16(data, h.n)],
              n |-> h.n + 2, err |-> "nil"]

(***************************************************************************)
(* Packet parsers (pkg/protohytale/packets_connect.go) and the compression *)
(* test of a Packet (packet.go).  The Zstd decoder is a library: what      *)
(* DecodeAll returns for data that starts with the magic is an input.      *)
(***************************************************************************)
ConnectPacketMinSize == 82

NilConnect == [nil |-> TRUE]

\* Mutant: the UUID is taken from offset 32, over the client type.
ConnectFixed_NoType(data) ==
    [nil |-> FALSE,
     ProtocolHash |-> SubSeq(data, 1, 32), ClientType |-> data[33],
     UUID |-> SubSeq(data, 33, 48),
     Language |-> <<>>, IdentityToken |-> <<>>, Username |-> <<>>, ReferralData |-> <<>>]

\* ParseConnect: the fixed part of a ConnectPacket
ConnectFixed(data) ==
    [nil |-> FALSE,
     ProtocolHash |-> SubSeq(data, 1, 32), ClientType |-> data[33],
     UUID |-> SubSeq(data, 34, 49),
     Language |-> <<>>, IdentityToken |-> <<>>, Username |-> <<>>, ReferralData |-> <<>>]

\* data[offset:]
From(data, offset) == SubSeq(data, offset + 1, Len(data))

ParseConnect(data) ==
    IF Len(data) < ConnectPacketMinSize
    THEN [value |-> NilConnect, err |-> "ErrConnectTooShort"]
    ELSE LET cp0 == ConnectFixed(data)
             off0 == 32 + 1 + 16
             lang == ReadString(From(data, off0))
             cp1 == [cp0 EXCEPT !.Language = lang.value]
             off1 == off0 + lang.n
             token == ReadString(From(data, off1))
             cp2 == [cp1 EXCEPT !.IdentityToken = token.value]
             off2 == off1 + token.n
             username == ReadString(From(data, off2))
             cp3 == [cp2 EXCEPT !.Username = username.value]
             off3 == off2 + username.n
         IN  IF off0 >= Len(data) \/ lang.err # "nil"
             THEN [value |-> cp0, err |-> "nil"]
             ELSE IF off1 >= Len(data) \/ token.err # "nil"
             THEN [value |-> cp1, err |-> "nil"]
             ELSE IF off2 >= Len(data) \/ username.err # "nil"
             THEN [value |-> cp2, err |-> "nil"]
             ELSE IF off3 < Len(data)
             THEN [value |-> [cp3 EXCEPT !.ReferralData = From(data, off3)], err |-> "nil"]
             ELSE [value |-> cp3, err |-> "nil"]

\* Mutant: a reason that does not decode is an error.
ParseDisconnect_Strict(data) ==
    IF Len(data) > 0
    THEN IF ReadString(data).err = "nil"
         THEN [value |-> [Reason |-> ReadString(data).value], err |-> "nil"]
         ELSE [value |-> [Reason |-> <<>>], err |-> ReadString(data).err]
    ELSE [value |-> [Reason |-> <<>>], err |-> "nil"]

ParseDisconnect(data) ==
    IF Len(data) > 0 /\ ReadString(data).err = "nil"
    THEN [value |-> [Reason |-> ReadString(data).value], err |-> "nil"]
    ELSE [value |-> [Reason |-> <<>>], err |-> "nil"]

zstdMagic == <<40, 181, 47, 253>>

\* Mutant: only three bytes of the magic are compared.
IsCompressed_Three(data) ==
    /\ Len(data) >= 4
    /\ data[1] = zstdMagic[1]
    /\ data[2] = zstdMagic[2]
    /\ data[3] = zstdMagic[3]

\* Packet.IsCompressed
IsCompressed(data) ==
    /\ Len(data) >= 4
    /\ data[1] = zstdMagic[1]
    /\ data[2] = zstdMagic[2]
    /\ data[3] = zstdMagic[3]
    /\ data[4] = zstdMagic[4]

\* What getDecoder().DecodeAll may return.
DecodeOutcomes ==
    { [value |-> <<104, 105>>, err |-> "nil"], [value |-> <<>>, err |-> "zstd" ] }

\* Packet.Decompress and Packet.DecompressTo: decoder tells whether
\* getDecoder() was called.
Decompress(data, decoded) ==
    IF ~IsCompressed(data)
    THEN [value |-> data, err |-> "nil", decoder |-> FALSE]
    ELSE [value |-> decoded.value, err |-> decoded.err, decoder |-> TRUE]

(***************************************************************************)
(* The primitives at work: a byte slice is given, or a writer fills the    *)
(* empty slice with an encoded value (with bytes after it, or cut short),  *)
(* and one of the readers is called on it.                                 *)
(***************************************************************************)
InputBytes == {2, 127, 128, 255}

Ramp(n) == [i \in 1..n |-> (i * 37) % 256]
MagicInputs ==
    { <<40, 181, 47>>, zstdMagic, zstdMagic \o <<2, 127>>, <<40, 181, 47, 252>>,
      <<41, 181, 47, 253>>, <<40, 181, 48, 253, 2>>, <<2>> \o zstdMagic }
\* QUIC datagrams: long and short headers, DCIDs of 0, 1, 2 and 4 bytes that
\* end the packet, are followed by more, or are cut.
QuicInputs ==
    { PktAA.bytes, PktBB.bytes, PktCC.bytes, PktShort.bytes, PktCut.bytes,
      <<192, 0, 0, 0, 1>>, <<192, 0, 0, 0, 1, 0>>, <<192, 0, 0, 0, 1, 0, 171, 205>>,
      <<192, 0, 0, 0, 1, 1>>, <<192, 0, 0, 0, 1, 1, 15>>, <<128, 0, 0, 0, 1, 2, 171, 205>>,
      <<255, 0, 0, 0, 1, 2, 171, 205, 9>>, <<127, 0, 0, 0, 1, 2, 171, 205>>,
      <<0, 0, 0, 0, 1, 1, 170>>, <<192, 0, 0, 0, 1, 4, 222, 173, 190, 239, 1, 2>>,
      <<192, 0, 0, 0, 1, 4, 222, 173, 190>>, <<192, 0, 0, 0, 1, 255, 1, 2, 3>> }
RawInputs ==
    SeqsUpTo(InputBytes, MaxInput) \cup {Ramp(n) : n \in {7, 8, 9, 15, 16, 17}}
        \cup MagicInputs \cup QuicInputs

Uint32Values ==
    { U32(0, 0), U32(0, 1), U32(0, 127), U32(0, 128), U32(0, 255), U32(0, 16383),
      U32(0, 16384), U32(0, 65535), U32(1, 0), U32(31, 65535), U32(32, 0),
      U32(4095, 65535), U32(4096, 0), U32(4660, 22136), U32(32767, 65535),
      U32(32768, 0), U32(65535, 65535) }

Str(n) == [i \in 1..n |-> 97 + (i % 7)]
Strings == {Str(n) : n \in {0, 1, 2, 127, 128, 255, 256, 257}}
Tails == {<<>>, <<255>>, <<2, 128>>}
ConnectStrings == {Str(n) : n \in {0, 1, 29, 30, 128}}
Referrals == {<<>>, <<255>>, <<2, 128>>, Ramp(40)}

Out(fn, r) == [fn |-> fn, value |-> r.value, n |-> r.n, err |-> r.err]

InitPrim ==
    /\ handlers = <<>>
    /\ built = FALSE
    /\ aliases = {}
    /\ mock = MockFresh
    /\ last = NoCall
    /\ registry = <<>>
    /\ configs = <<>>
    /\ build = <<>>
    /\ sess = <<>>
    /\ stopped = FALSE
    /\ backends = <<>>
    /\ owner = <<>>
    /\ byAddr = <<>>
    /\ conn = [s \in Conns |-> NoConn]
    /\ task = [s \in Conns |-> NoTask]
    /\ sessions = {}
    /\ sessionCount = 0
    /\ pw = NoWriter
    /\ pipe = NoPipe
    /\ closedSessions = {}
    /\ now = 0
    /\ lastActivity = <<>>
    /\ recv = NoRecv
    /\ values = <<>>
    /\ sets = <<>>
    /\ reads = <<>>
    /\ shut = NoShutdown
    /\ wire = <<>>
    /\ sent = <<>>
    /\ written = <<>>
    /\ pr = NoReader
    /\ rp = NoRead
    /\ got = <<>>
    /\ arg \in RawInputs
    /\ enc = NoValue
    /\ ret = NoOut

\* WriteVarInt(value), followed by other bytes
EncodeVarInt(value, tail) ==
    /\ arg = <<>>
    /\ ret = NoOut
    /\ arg' = WriteVarInt(value) \o tail
    /\ enc' = [kind |-> "varint", value |-> value, size |-> Len(WriteVarInt(value))]
    /\ ret' = NoOut
    /\ UNCHANGED <<chainVars, buildVars, demuxVars, termVars, trackVars, shutVars, codecVars, ctxVars, idleVars, closeVars, pipeVars>>

\* WriteString(s), followed by other bytes
EncodeString(str, tail) ==
    /\ arg = <<>>
    /\ ret = NoOut
    /\ arg' = WriteString(str) \o tail
    /\ enc' = [kind |-> "string", value |-> str, size |-> Len(WriteString(str))]
    /\ ret' = NoOut
    /\ UNCHANGED <<chainVars, buildVars, demuxVars, termVars, trackVars, shutVars, codecVars, ctxVars, idleVars, closeVars, pipeVars>>

\* A Connect payload as a client writes it: hash, client type, UUID, three
\* strings, referral data.
EncodeConnect(lang, token, username, referral) ==
    /\ arg = <<>>
    /\ ret = NoOut
    /\ arg' = Ramp(32) \o <<7>> \o Ramp(16) \o WriteString(lang) \o WriteString(token)
                 \o WriteString(username) \o referral
    /\ enc' = [kind |-> "connect", Language |-> lang, IdentityToken |-> token,
                Username |-> username, ReferralData |-> referral]
    /\ ret' = NoOut
    /\ UNCHANGED <<chainVars, buildVars, demuxVars, termVars, trackVars, shutVars, codecVars, ctxVars, idleVars, closeVars, pipeVars>>

\* The slice is cut short: only its first keep bytes reach the reader.
Truncate(keep) ==
    /\ enc # NoValue
    /\ ret = NoOut
    /\ keep < Len(arg)
    /\ arg' = SubSeq(arg, 1, keep)
    /\ enc' = NoValue
    /\ ret' = NoOut
    /\ UNCHANGED <<chainVars, buildVars, demuxVars, termVars, trackVars, shutVars, codecVars, ctxVars, idleVars, closeVars, pipeVars>>

CallReadVarInt ==
    /\ ret = NoOut
    /\ ret' = Out("ReadVarInt", ReadVarInt(arg))
    /\ UNCHANGED <<arg, enc>>
    /\ UNCHANGED <<chainVars, buildVars, demuxVars, termVars, trackVars, shutVars, codecVars, ctxVars, idleVars, closeVars, pipeVars>>

CallReadString ==
    /\ ret = NoOut
    /\ ret' = Out("ReadString", ReadString(arg))
    /\ UNCHANGED <<arg, enc>>
    /\ UNCHANGED <<chainVars, buildVars, demuxVars, termVars, trackVars, shutVars, codecVars, ctxVars, idleVars, closeVars, pipeVars>>

FixedReaders ==
    {"ReadUUID", "ReadUint8", "ReadUint16LE", "ReadUint32LE", "ReadUint64LE",
     "ReadInt32LE", "ReadFloat32LE", "ReadFloat16"}

ApplyFixed(fn, data) ==
    CASE fn = "ReadUUID" -> ReadUUID(data)
      [] fn = "ReadUint8" -> ReadUint8(data)
      [] fn = "ReadUint16LE" -> ReadUint16LE(data)
      [] fn = "ReadUint32LE" -> ReadUint32LE(data)
      [] fn = "ReadUint64LE" -> ReadUint64LE(data)
      [] fn = "ReadInt32LE" -> ReadInt32LE(data)
      [] fn = "ReadFloat32LE" -> ReadFloat32LE(data)
      [] fn = "ReadFloat16" -> ReadFloat16(data)

CallFixed(fn) ==
    /\ ret = NoOut
    /\ ret' = Out(fn, ApplyFixed(fn, arg))
    /\ UNCHANGED <<arg, enc>>
    /\ UNCHANGED <<chainVars, buildVars, demuxVars, termVars, trackVars, shutVars, codecVars, ctxVars, idleVars, closeVars, pipeVars>>

CallReadBytes(n) ==
    /\ ret = NoOut
    /\ ret' = [Out("ReadBytes", ReadBytes(arg, n)) EXCEPT !.fn = "ReadBytes"] @@ [want |-> n]
    /\ UNCHANGED <<arg, enc>>
    /\ UNCHANGED <<chainVars, buildVars, demuxVars, termVars, trackVars, shutVars, codecVars, ctxVars, idleVars, closeVars, pipeVars>>

CallReadHostAddress ==
    /\ ret = NoOut
    /\ ret' = Out("ReadHostAddress", ReadHostAddress(arg))
    /\ UNCHANGED <<arg, enc>>
    /\ UNCHANGED <<chainVars, buildVars, demuxVars, termVars, trackVars, shutVars, codecVars, ctxVars, idleVars, closeVars, pipeVars>>

CallParseConnect ==
    /\ ret = NoOut
    /\ ret' = [fn |-> "ParseConnect", value |-> ParseConnect(arg).value,
                err |-> ParseConnect(arg).err]
    /\ UNCHANGED <<arg, enc>>
    /\ UNCHANGED <<chainVars, buildVars, demuxVars, termVars, trackVars, shutVars, codecVars, ctxVars, idleVars, closeVars, pipeVars>>

CallParseDisconnect ==
    /\ ret = NoOut
    /\ ret' = [fn |-> "ParseDisconnect", value |-> ParseDisconnect(arg).value,
                err |-> ParseDisconnect(arg).err]
    /\ UNCHANGED <<arg, enc>>
    /\ UNCHANGED <<chainVars, buildVars, demuxVars, termVars, trackVars, shutVars, codecVars, ctxVars, idleVars, closeVars, pipeVars>>

CallIsCompressed ==
    /\ ret = NoOut
    /\ ret' = [fn |-> "IsCompressed", value |-> IsCompressed(arg)]
    /\ UNCHANGED <<arg, enc>>
    /\ UNCHANGED <<chainVars, buildVars, demuxVars, termVars, trackVars, shutVars, codecVars, ctxVars, idleVars, closeVars, pipeVars>>

\* Decompress (fn = "Decompress") and DecompressTo (fn = "DecompressTo")
CallDecompress(fn, decoded) ==
    /\ ret = NoOut
    /\ ret' = [fn |-> fn, value |-> Decompress(arg, decoded).value,
                err |-> Decompress(arg, decoded).err,
                decoder |-> Decompress(arg, decoded).decoder]
    /\ UNCHANGED <<arg, enc>>
    /\ UNCHANGED <<chainVars, buildVars, demuxVars, termVars, trackVars, shutVars, codecVars, ctxVars, idleVars, closeVars, pipeVars>>

CallParseQUICDCID ==
    /\ ret = NoOut
    /\ ret' = [fn |-> "parseQUICDCID", value |-> parseQUICDCID(arg)]
    /\ UNCHANGED <<arg, enc>>
    /\ UNCHANGED <<chainVars, buildVars, demuxVars, termVars, trackVars, shutVars, codecVars, ctxVars, idleVars, closeVars, pipeVars>>

NextPrim ==
    \/ \E value \in Uint32Values, tail \in Tails : EncodeVarInt(value, tail)
    \/ \E str \in Strings, tail \in Tails : EncodeString(str, tail)
    \/ \E keep \in (0..3) \cup {Len(arg) - 1} : Truncate(keep)
    \/ CallReadVarInt
    \/ CallReadString
    \/ \E fn \in FixedReaders : CallFixed(fn)
    \/ \E n \in 0..(MaxInput + 1) : CallReadBytes(n)
    \/ CallReadHostAddress
    \/ \E lang \in ConnectStrings, token \in ConnectStrings, username \in ConnectStrings,
          referral \in Referrals : EncodeConnect(lang, token, username, referral)
    \/ CallParseConnect
    \/ CallParseDisconnect
    \/ CallIsCompressed
    \/ \E fn \in {"Decompress", "DecompressTo"}, decoded \in DecodeOutcomes :
          CallDecompress(fn, decoded)
    \/ CallParseQUICDCID

SpecPrim == InitPrim /\ [][NextPrim]_vars

(***************************************************************************)
(* Context: the key-value map of a session, written by Set and read by     *)
(* Get, the generic GetValue[T] and the typed GetString, GetInt, GetBool.  *)
(* A value is a type tag and a printed value.                              *)
(***************************************************************************)
ContextKeys == {"backend", "rateLimit"}
ContextTypes == {"string", "int", "bool", "*RateLimitInfo"}
ContextValues ==
    { StringValue(""), StringValue("B1"), IntValue, [type |-> "int", val |-> "0"],
      [type |-> "bool", val |-> "false"], [type |-> "bool", val |-> "true"],
      [type |-> "*RateLimitInfo", val |-> "&{true 60}"] }

\* The zero value of a type
Zero(T) ==
    CASE T = "string" -> ""
      [] T = "int" -> "0"
      [] T = "bool" -> "false"
      [] OTHER -> "nil"

\* Context.Get
Get(m, key) == IF key \in DOMAIN m THEN m[key] ELSE Missing

\* Mutant: the value is handed out whatever its type.
GetValue_AnyType(m, T, key) ==
    IF Get(m, key) # Missing
    THEN [value |-> Get(m, key).val, ok |-> TRUE]
    ELSE [value |-> Zero(T), ok |-> FALSE]

\* GetValue[T](ctx, key)
GetValue(m, T, key) ==
    IF Get(m, key).type = T
    THEN [value |-> Get(m, key).val, ok |-> TRUE]
    ELSE [value |-> Zero(T), ok |-> FALSE]

GetInt(v) == IF v.type = "int" THEN v.val ELSE "0"
GetBool(v) == IF v.type = "bool" THEN v.val ELSE "false"

InitContext ==
    /\ handlers = <<>>
    /\ built = FALSE
    /\ aliases = {}
    /\ mock = MockFresh
    /\ last = NoCall
    /\ registry = <<>>
    /\ configs = <<>>
    /\ build = <<>>
    /\ sess = <<>>
    /\ stopped = FALSE
    /\ backends = <<>>
    /\ owner = <<>>
    /\ byAddr = <<>>
    /\ conn = [s \in Conns |-> NoConn]
    /\ task = [s \in Conns |-> NoTask]
    /\ sessions = {}
    /\ sessionCount = 0
    /\ pw = NoWriter
    /\ pipe = NoPipe
    /\ closedSessions = {}
    /\ now = 0
    /\ lastActivity = <<>>
    /\ recv = NoRecv
    /\ values = <<>>
    /\ sets = <<>>
    /\ reads = <<>>
    /\ shut = NoShutdown
    /\ wire = <<>>
    /\ sent = <<>>
    /\ written = <<>>
    /\ pr = NoReader
    /\ rp = NoRead
    /\ got = <<>>
    /\ arg = <<>>
    /\ enc = NoValue
    /\ ret = NoOut

\* ctx.Set(key, value)
Set(key, value) ==
    /\ Len(sets) < MaxSets
    /\ values' = MapStore(values, key, value)
    /\ sets' = Append(sets, [key |-> key, value |-> value])
    /\ ret' = NoOut
    /\ UNCHANGED <<arg, enc>>
    /\ UNCHANGED <<chainVars, buildVars, demuxVars, termVars, trackVars, shutVars, codecVars, idleVars, closeVars, pipeVars>>

\* GetValue[T](ctx, key)
CallGetValue(T, key) ==
    /\ ret' = [fn |-> "GetValue", key |-> key, T |-> T,
               value |-> GetValue(values, T, key).value, ok |-> GetValue(values, T, key).ok]
    /\ UNCHANGED <<arg, enc, values, sets>>
    /\ UNCHANGED <<chainVars, buildVars, demuxVars, termVars, trackVars, shutVars, codecVars, idleVars, closeVars, pipeVars>>

\* ctx.GetString(key), ctx.GetInt(key), ctx.GetBool(key)
CallGetString(key) ==
    /\ ret' = [fn |-> "GetString", key |-> key, T |-> "string",
               value |-> GetString(Get(values, key))]
    /\ UNCHANGED <<arg, enc, values, sets>>
    /\ UNCHANGED <<chainVars, buildVars, demuxVars, termVars, trackVars, shutVars, codecVars, idleVars, closeVars, pipeVars>>

CallGetInt(key) ==
    /\ ret' = [fn |-> "GetInt", key |-> key, T |-> "int",
               value |-> GetInt(Get(values, key))]
    /\ UNCHANGED <<arg, enc, values, sets>>
    /\ UNCHANGED <<chainVars, buildVars, demuxVars, termVars, trackVars, shutVars, codecVars, idleVars, closeVars, pipeVars>>

CallGetBool(key) ==
    /\ ret' = [fn |-> "GetBool", key |-> key, T |-> "bool",
               value |-> GetBool(Get(values, key))]
    /\ UNCHANGED <<arg, enc, values, sets>>
    /\ UNCHANGED <<chainVars, buildVars, demuxVars, termVars, trackVars, shutVars, codecVars, idleVars, closeVars, pipeVars>>

NextContext ==
    \/ \E key \in ContextKeys, value \in ContextValues : Set(key, value)
    \/ \E T \in ContextTypes, key \in ContextKeys : CallGetValue(T, key)
    \/ \E key \in ContextKeys : CallGetString(key)
    \/ \E key \in ContextKeys : CallGetInt(key)
    \/ \E key \in ContextKeys : CallGetBool(key)

SpecContext == InitContext /\ [][NextContext]_vars

(***************************************************************************)
(* Claims about the chain.                                                 *)
(***************************************************************************)
LastCall == last.calls[Len(last.calls)]

\* C1: one Chain.OnConnect or Chain.OnPacket invocation calls the handlers
\* in list order, goes on only after a Continue, stops at the first handler
\* whose action is not Continue and returns that handler's Result (action
\* and error); no handler placed after it is called.
C1_StopsAtFirstNonContinue ==
    last.op \in {"connect", "packet"} =>
        /\ Len(last.calls) <= Len(handlers)
        /\ \A i \in 1..Len(last.calls) :
              last.calls[i].pos = i /\ last.calls[i].h = handlers[i]
        /\ \A i \in 1..(Len(last.calls) - 1) :
              last.calls[i].result.Action = Continue
        /\ (last.calls # <<>> /\ LastCall.result.Action # Continue)
              => last.result = LastCall.result
        /\ (last.calls = <<>> \/ LastCall.result.Action = Continue)
              => Len(last.calls) = Len(handlers)

\* The first of two handlers returned Drop with an error: the chain returned
\* it and the second handler was not called.
C1_Witness ==
    /\ last.op = "connect"
    /\ Len(handlers) = 2
    /\ Len(last.calls) = 1
    /\ last.result = Result(Drop, "err")
    /\ ~mock[handlers[2]].connectCalled

\* C2: Chain.OnConnect and Chain.OnPacket return Drop when every handler
\* returned Continue (an empty chain included), and never return Continue.
C2_NeverContinue ==
    last.op \in {"connect", "packet"} =>
        /\ last.result.Action # Continue
        /\ (\A i \in 1..Len(last.calls) : last.calls[i].result.Action = Continue)
              => last.result.Action = Drop

\* Two handlers both returned Continue (one of them with an error) and the
\* chain returned Drop.
C2_Witness ==
    /\ last.op = "packet"
    /\ Len(handlers) = 2
    /\ Len(last.calls) = 2
    /\ \A i \in 1..2 : last.calls[i].result.Action = Continue
    /\ last.calls[1].result.Error = "err"
    /\ last.result.Action = Drop

\* C3: Chain.OnDisconnect calls OnDisconnect on every handler of the chain
\* exactly once, in chain order, whatever earlier OnConnect and OnPacket
\* calls returned and whichever handlers they reached.
C3_DisconnectAll ==
    last.op = "disconnect" =>
        /\ Len(last.calls) = Len(handlers)
        /\ \A i \in 1..Len(last.calls) :
              /\ last.calls[i].pos = i
              /\ last.calls[i].h = handlers[i]
              /\ mock[handlers[i]].disconnectCalled

\* The first handler dropped the connection, the second was never reached by
\* OnConnect or OnPacket, and OnDisconnect was called on both.
C3_Witness ==
    /\ last.op = "disconnect"
    /\ Len(handlers) = 2
    /\ mock[handlers[1]].connectCalled
    /\ ~mock[handlers[2]].connectCalled
    /\ ~mock[handlers[2]].packetCalled
    /\ mock[handlers[2]].disconnectCalled

\* C5: once NewChain has run, nothing changes which handlers the chain runs
\* or their order: no call of OnConnect, OnPacket, OnDisconnect or Handlers,
\* and no write by the caller to the slice it passed to NewChain or got from
\* Handlers.
C5_HandlersImmutable == [][built => handlers' = handlers]_vars

(***************************************************************************)
(* Claims about BuildChain.                                                *)
(***************************************************************************)
\* The config entries BuildChain cannot turn into a handler.
BadEntries ==
    {i \in 1..Len(configs) :
        \/ configs[i].Type \notin DOMAIN registry
        \/ Factory(registry[configs[i].Type], configs[i].Config).err # "nil"}

FirstBad == CHOOSE i \in BadEntries : \A j \in BadEntries : i <= j

\* C6: BuildChain fails, returning an error and no chain, as soon as a
\* config entry names a type absent from the registry or a factory returns
\* an error (no factory of a later entry is invoked); on success the chain
\* holds exactly one handler per config entry, in config order.
C6_BuildChain ==
    build.done =>
        IF BadEntries = {}
        THEN /\ build.err = "nil"
             /\ ~build.chain.nil
             /\ Len(build.chain.handlers) = Len(configs)
             /\ \A i \in 1..Len(configs) :
                   build.chain.handlers[i]
                      = Factory(registry[configs[i].Type], configs[i].Config).h
             /\ build.calls = [i \in 1..Len(configs) |-> i]
        ELSE /\ build.err # "nil"
             /\ build.chain = NilChain
             /\ \A i \in 1..Len(build.calls) : build.calls[i] = i
             /\ Len(build.calls)
                   = IF configs[FirstBad].Type \in DOMAIN registry
                     THEN FirstBad ELSE FirstBad - 1

\* The second of three entries has a factory that fails: construction fails
\* after two factory calls and the third entry's factory is not invoked.
C6_Witness ==
    /\ build.done
    /\ Len(configs) = 3
    /\ BadEntries # {}
    /\ FirstBad = 2
    /\ configs[2].Type \in DOMAIN registry
    /\ build.err = "failed to create handler"
    /\ build.calls = <<1, 2>>

(***************************************************************************)
(* Claims about the session life cycle.                                    *)
(***************************************************************************)
Count(log, e) == Cardinality({i \in 1..Len(log) : log[i] = e})

\* C4: over the life of every session that is created, the chain's
\* OnConnect is invoked exactly once, before any OnPacket, and OnDisconnect
\* is invoked exactly once on every handler, after the last OnPacket,
\* whether the session ends by Drop, by idle timeout or by shutdown; while
\* the session lives no OnDisconnect has been invoked.
C4_SessionHooks ==
    \A id \in SessionIds :
        LET log == sess[id].log
        IN sess[id].state # "none" =>
              /\ log # <<>>
              /\ log[1] = Ev("OnConnect", 0)
              /\ Count(log, Ev("OnConnect", 0)) = 1
              /\ \A i, j \in 1..Len(log) :
                    (log[i].hook = "OnPacket" /\ log[j].hook = "OnDisconnect") => i < j
              /\ sess[id].state = "live" =>
                    \A i \in 1..Len(log) : log[i].hook # "OnDisconnect"
              /\ sess[id].state = "closed" =>
                    /\ sess[id].cause \in {"drop", "idle", "shutdown"}
                    /\ \A p \in 1..Len(handlers) :
                          Count(log, Ev("OnDisconnect", p)) = 1
                    /\ \A i \in 1..Len(log) :
                          log[i].hook = "OnDisconnect" => log[i].pos \in 1..Len(handlers)

\* With a chain of two handlers, one session that saw a packet was ended by
\* the idle scan and another by a Drop, and each got OnDisconnect on both
\* handlers.
C4_Witness ==
    /\ Len(handlers) = 2
    /\ \E a, b \in SessionIds :
          /\ sess[a].state = "closed" /\ sess[a].cause = "idle"
          /\ sess[a].packets > 0
          /\ sess[b].state = "closed" /\ sess[b].cause = "drop"
          /\ Count(sess[a].log, Ev("OnDisconnect", 2)) = 1
          /\ Count(sess[b].log, Ev("OnDisconnect", 2)) = 1

(***************************************************************************)
(* Claims about the terminator's backend registry.                         *)
(***************************************************************************)
\* The DCID of session s, "" if its InitialPacket has none.
Dcid(s) == parseQUICDCID(conn[s].InitialPacket.bytes)

\* The step is TerminatorHandler.OnConnect for session s.
OnConnectStep(s) == conn[s].phase = "new" /\ conn'[s].phase # "new"

\* C7: OnConnect with a non-empty backend string B in the Context and an
\* InitialPacket that is a long-header packet with DCID d stores d -> B in
\* the registry, overwrites the Context's backend with the internal
\* listener's address, and returns Continue.
C7_OnConnectRegisters ==
    [][\A s \in Conns :
          (OnConnectStep(s) /\ GetString(conn[s].backend) # "" /\ Dcid(s) # "")
          => /\ Dcid(s) \in DOMAIN backends'
             /\ backends'[Dcid(s)] = GetString(conn[s].backend)
             /\ conn'[s].backend = StringValue(InternalAddr)
             /\ conn'[s].result = Result(Continue, "nil")]_vars

C7_Witness ==
    \E s \in Conns :
       /\ conn[s].phase = "continued"
       /\ conn[s].InitialPacket = PktAA
       /\ conn[s].backend = StringValue(InternalAddr)
       /\ "aa" \in DOMAIN backends
       /\ backends["aa"] = "B1"

\* C8: OnConnect with the Context's backend missing, empty or not a string,
\* or with an InitialPacket that has no DCID, returns Drop with a non-nil
\* error, adds no registry entry and leaves the Context's backend as it was.
C8_OnConnectRejects ==
    [][\A s \in Conns :
          (OnConnectStep(s) /\ (GetString(conn[s].backend) = "" \/ Dcid(s) = ""))
          => /\ conn'[s].result.Action = Drop
             /\ conn'[s].result.Error # "nil"
             /\ backends' = backends
             /\ conn'[s].backend = conn[s].backend]_vars

\* Both ways of rejecting have happened: a backend that is not a string,
\* and a good backend with a short-header InitialPacket.
C8_Witness ==
    \E s, t \in Conns :
       /\ conn[s].phase = "dropped"
       /\ conn[s].backend = IntValue
       /\ conn[s].InitialPacket = PktAA
       /\ conn[t].phase = "dropped"
       /\ conn[t].backend = StringValue("B1")
       /\ conn[t].InitialPacket = PktShort
       /\ backends = <<>>

\* The accept path has correlated session s: its handleConnection found
\* the session's own DCID in the registry and has consumed it.
Correlated(s) ==
    /\ task[s].pc \in {"dial", "select", "count", "store", "bridge", "done"}
    /\ task[s].ok
    /\ task[s].dcid = Dcid(s)

\* Session s is registered and waits for the accept path.
Pending(s) == conn[s].phase = "continued" /\ ~Correlated(s)

\* C9: the registry holds no entry for a DCID once the matching client has
\* been correlated by the accept path or has disconnected: every entry
\* belongs to a session that is connected and not yet correlated.
C9_RegistryOneShot ==
    \A d \in DOMAIN backends : \E s \in Conns : Pending(s) /\ Dcid(s) = d

\* One session has been correlated and another has disconnected while it
\* was registered, and the registry is empty.
C9_Witness ==
    \E s, t \in Conns :
       /\ Correlated(s)
       /\ conn[t].phase = "closed"
       /\ conn[t].result.Action = Continue
       /\ task[t].pc \in {"idle", "queued"}
       /\ backends = <<>>

\* C10: the registry is insert-once: while an entry for DCID d is held, a
\* further OnConnect that carries the same DCID does not replace its
\* backend.
C10_InsertOnce ==
    [][\A d \in DOMAIN backends :
          d \in DOMAIN backends' => backends'[d] = backends[d]]_vars

(***************************************************************************)
(* Claims about the accept path of the terminator.                         *)
(***************************************************************************)
\* Session s's handleConnection holds a backend it has loaded from the
\* registry and has not yet deleted the entry.
Holding(s) == task[s].entry # 0

\* C11: the registry is take-once: a registration is consumed by at most
\* one accepted connection, so of two handleConnection tasks that resolve
\* to the same DCID at most one obtains the backend of a registration.
C11_TakeOnce ==
    \A s, t \in Conns :
       (s # t /\ Holding(s) /\ Holding(t)) => task[s].entry # task[t].entry

\* The step takes session s's handleConnection from position pc onward.
Leaves(s, pc) == task[s].pc = pc /\ task'[s].pc # pc

\* The step stores no session.
NoSessionMade == sessions' = sessions /\ sessionCount' = sessionCount

\* C13: when the remote address of an accepted connection has no latched
\* DCID, or the latched DCID has no registry entry, handleConnection closes
\* the client with code 0x01, dials no backend and creates no session.
C13_RejectsUncorrelated ==
    [][\A s \in Conns :
          /\ (Leaves(s, "getdcid") /\ TrackerGetDCID(byAddr, task[s].remoteAddr) = "")
             => /\ task'[s].pc = "done"
                /\ task'[s].closed = 1
                /\ task'[s].dials = 0
                /\ NoSessionMade
          /\ (Leaves(s, "load") /\ task[s].dcid \notin DOMAIN backends)
             => /\ task'[s].pc = "untrack"
                /\ ~task'[s].ok
                /\ task'[s].closed = 1
                /\ task'[s].dials = 0
                /\ NoSessionMade
          /\ (Leaves(s, "untrack") /\ ~task[s].ok)
             => /\ task'[s].pc = "done"
                /\ task'[s].closed = 1
                /\ task'[s].dials = 0
                /\ NoSessionMade]_vars

\* One connection has found no registry entry and another has been closed
\* with 0x01 and has returned; no backend was dialed.
C13_Witness ==
    \E s, t \in Conns :
       /\ task[s].pc = "untrack" /\ ~task[s].ok /\ task[s].closed = 1
       /\ task[t].pc = "done" /\ task[t].closed = 1 /\ task[t].dials = 0
       /\ sessionCount = 0

\* C14: when handleConnection has found the latched DCID and the registry
\* entry, it deletes both before it dials, so that when the dial returns,
\* with either outcome, the tracker holds no entry for the connection's
\* remote address (the local address of the session's forwarder socket) and
\* the registry holds no entry for its DCID.
C14_AbsentAtDialReturn ==
    [][\A s \in Conns :
          (Leaves(s, "dial") /\ task[s].ok)
          => /\ task[s].dcid \notin DOMAIN backends
             /\ conn[s].addr # 0 => conn[s].addr \notin DOMAIN byAddr]_vars

\* A handleConnection that found both entries and has deleted them is
\* dialing, and the tracker holds an entry for its remote address again.
C14_Witness ==
    \E s \in Conns :
       /\ task[s].pc = "dial"
       /\ task[s].ok
       /\ conn[s].addr # 0
       /\ conn[s].addr \in DOMAIN byAddr

\* C15: when the dial of the backend fails, handleConnection closes the
\* client with code 0x02 and returns: it has dialed once and has created no
\* session.  Code 0x02 is used for nothing else.
C15_DialFailure ==
    /\ \A s \in Conns :
          /\ task[s].dialErr =>
                /\ task[s].pc = "done"
                /\ task[s].closed = 2
                /\ task[s].dials = 1
                /\ task[s].server = "none"
                /\ task[s].sid = 0
          /\ task[s].closed = 2 => task[s].dialErr
    /\ sessionCount <= Cardinality({s \in Conns : task[s].server # "none"})

C15_Witness ==
    \E s \in Conns : task[s].dialErr /\ task[s].closed = 2 /\ task[s].pc = "done"

\* C16: if the client is gone when handleConnection looks at it after the
\* dial of the backend has succeeded, handleConnection closes the backend
\* connection and returns: nothing is added to the session table and no
\* bridge starts.
C16_ClientGone ==
    [][\A s \in Conns :
          (Leaves(s, "select") /\ task[s].gone)
          => /\ task'[s].pc = "done"
             /\ task'[s].server = "closed"
             /\ task'[s].closed = 0
             /\ task'[s].sid = 0
             /\ NoSessionMade]_vars

\* A handleConnection has returned with the backend connection closed and
\* no session was ever stored.
C16_Witness ==
    \E s \in Conns :
       /\ task[s].pc = "done"
       /\ task[s].dials = 1
       /\ task[s].server = "closed"
       /\ sessionCount = 0

\* The handleConnection tasks between h.sessions.Store and the deferred
\* h.sessions.Delete, which is the time their session.bridge() runs.
Bridging == {s \in Conns : task[s].pc = "bridge"}

\* The handleConnection tasks that have taken a session id.
Counted == {s \in Conns : task[s].sid # 0}

\* C17: a terminator session is in the session table exactly while its
\* bridge runs: the table holds the ids of the running bridges and of
\* nothing else; an id is taken and stored only after a successful dial
\* with the client still there, the ids are distinct, and a task that has
\* returned has no session in the table.
C17_SessionTable ==
    /\ sessions = {task[s].sid : s \in Bridging}
    /\ \A s \in Counted :
          /\ task[s].pc \in {"store", "bridge"}
          /\ task[s].sid \in 1..sessionCount
          /\ task[s].dials = 1
          /\ ~task[s].dialErr
          /\ task[s].server = "open"
          /\ \A t \in Counted : t # s => task[t].sid # task[s].sid
    /\ \A s \in Conns : task[s].pc \in {"store", "bridge"} => s \in Counted

\* One bridge has returned and its session has left the table while
\* another bridge runs.
C17_Witness ==
    \E s, t \in Conns :
       /\ task[s].pc = "bridge"
       /\ task[t].pc = "done"
       /\ sessionCount = 2
       /\ sessions = {task[s].sid}

\* The DCID of the first datagram in log that is a long-header packet with
\* a non-empty DCID; "" if there is none.
RECURSIVE FirstDcid(_)
FirstDcid(log) ==
    IF log = <<>> THEN ""
    ELSE IF parseQUICDCID(Head(log).bytes) # "" THEN parseQUICDCID(Head(log).bytes)
    ELSE FirstDcid(Tail(log))

\* C12: the tracker latches the first DCID per remote address: from the
\* first long-header packet with a non-empty DCID read from an address
\* until the address's entry is deleted, GetDCID gives that packet's DCID,
\* whatever packets are read from the address later.
C12_FirstDcidLatched ==
    \A a \in Addrs : TrackerGetDCID(byAddr, a) = FirstDcid(reads[a])

\* A packet with another DCID has been read after the first and the first
\* DCID is still the one returned.
C12_Witness ==
    \E a \in Addrs :
       /\ reads[a] = <<PktShort, PktAA, PktBB>> \/ reads[a] = <<PktAA, PktBB>>
       /\ TrackerGetDCID(byAddr, a) = "aa"

\* Shutdown of terminator.go: nil is returned only when the accept loop
\* and every handleConnection have returned, the context's error only when
\* the caller's context is done, and at its select Shutdown can return the
\* context's error as soon as the caller's context is done.
ShutdownSelect ==
    /\ shut.ret = "nil" => WgCounter = 0
    /\ shut.ret = "ctxErr" => shut.ctxDone
    /\ (shut.pc = "waiting" /\ shut.ctxDone) => ENABLED ShutdownReturn("ctxErr")

\* C18: Shutdown is bounded by the caller's context: whenever the caller's
\* context is done while Shutdown waits for the terminator to finish,
\* Shutdown can stop waiting and return the context's error.
C18_BoundedByContext ==
    (shut.pc = "closing" /\ shut.ctxDone) => ENABLED HandlerShutdownReturn("ctxErr")

\* Shutdown of the handler waits in h.term.Close() and the caller's context
\* is done.
C18_Witness ==
    /\ shut.pc = "closing"
    /\ shut.ctxDone

(***************************************************************************)
(* Claims about framed packets.                                            *)
(***************************************************************************)
IsPrefix(a, b) == Len(a) <= Len(b) /\ a = SubSeq(b, 1, Len(a))

\* ReadPacket waits for bytes and the stream has handed over all of them.
Drained == rp.pc # "idle" /\ Len(pr.buf) < rp.n /\ wire = <<>>

\* Every Write on the reader's stream has returned nil so far, and the
\* reader has dropped none of the stream's bytes in a Reset.
Intact == ~pipe.torn /\ ~pipe.lost

\* C19: the packets ReadPacket returns are, in order, the packets that
\* PacketWriter.Write has written to the stream (Write returned nil), with
\* the same id and the same payload; once the reader has taken every byte
\* written, it has returned all of them.
C19_FrameRoundTrip ==
    Intact => /\ IsPrefix(got, written)
              /\ Drained => got = written

\* Two frames with different ids and payloads were written and read back.
C19_Witness ==
    /\ Intact
    /\ Len(got) = 2
    /\ got = written
    /\ got[1].ID # got[2].ID
    /\ got[1].Data # got[2].Data
    /\ Len(got[2].Data) > 1

Min(a, b) == IF a < b THEN a ELSE b

\* The read loop of ensureBytes when each Read returns all that fits.
RECURSIVE fillWhole(_, _, _)
fillWhole(r, n, stream) ==
    IF Len(r.buf) >= n \/ stream = <<>>
    THEN <<r, stream>>
    ELSE LET k == Min(r.size - Len(r.buf), Len(stream))
         IN  fillWhole([r EXCEPT !.buf = @ \o SubSeq(stream, 1, k)], n,
                       SubSeq(stream, k + 1, Len(stream)))

\* The packets ReadPacket returns, call after call, from a stream that is
\* delivered whole, until a call finds the stream empty.
RECURSIVE readWhole(_, _, _)
readWhole(r, stream, acc) ==
    LET h == fillWhole(ensureBytes(r, HeaderSize), HeaderSize, stream)
    IN  IF Available(h[1]) < HeaderSize
        THEN acc
        ELSE LET length == Uint32(h[1].buf, h[1].offset)
                 totalSize == HeaderSize + length
                 b == fillWhole(ensureBytes(h[1], totalSize), totalSize, h[2])
             IN  IF length > MaxPacketSize
                 THEN Append(acc, [err |-> "ErrPacketTooLarge"])
                 ELSE IF Available(b[1]) < totalSize
                      THEN acc
                      ELSE readWhole([b[1] EXCEPT !.offset = @ + totalSize], b[2],
                                     Append(acc, [ID   |-> Uint32(b[1].buf, b[1].offset + 4),
                                                  Data |-> SubSeq(b[1].buf,
                                                                  b[1].offset + HeaderSize + 1,
                                                                  b[1].offset + totalSize)]))

Whole == readWhole(NewPacketReaderSize(DefaultBufSize), sent, <<>>)

\* What the calls returned up to the first error, the error included: a
\* call after ErrPacketTooLarge finds the same header again.
RECURSIVE UpToError(_)
UpToError(q) ==
    IF q = <<>> THEN <<>>
    ELSE IF "err" \in DOMAIN Head(q) THEN <<Head(q)>>
    ELSE <<Head(q)>> \o UpToError(Tail(q))

\* C20: whatever pieces the stream hands to the reader, cuts inside a
\* header included, the packets returned are those a reader returns that
\* gets the same bytes whole: never a different packet, and all of them
\* once every byte has been handed over.
C20_SplitResilience ==
    ~pipe.lost => /\ IsPrefix(UpToError(got), Whole)
                  /\ Drained => UpToError(got) = Whole

\* Two frames came out of a stream that was cut inside a header.
C20_Witness ==
    /\ ~pipe.lost
    /\ rp.split
    /\ Len(got) = 2
    /\ Drained
    /\ got = Whole

(***************************************************************************)
(* Claims about the reader on a stream that ends.                          *)
(***************************************************************************)
\* The call in progress ends in this step with the error e.
EndsWith(e) == Len(got') = Len(got) + 1 /\ got'[Len(got')] = [err |-> e]

\* The call in progress has its header and decides on it in this step.
ParsesHeader == rp.pc = "header" /\ Available(pr) >= HeaderSize /\ rp' # rp

\* C21: ReadPacket and ReadPacketNoCopy end with ErrPacketTooLarge exactly
\* when the length field of the header is above 16 MiB (16 MiB itself goes
\* on to the payload), and the rejecting step reads nothing from the stream
\* and leaves the buffer and the offset as they were.
C21_PacketTooLarge ==
    [][ /\ EndsWith("ErrPacketTooLarge")
            => /\ ParsesHeader
               /\ Uint32(pr.buf, pr.offset) > 16777216
               /\ pr' = pr
               /\ wire' = wire
        /\ ParsesHeader
            => /\ EndsWith("ErrPacketTooLarge") <=> Uint32(pr.buf, pr.offset) >= 16777217
               /\ ~EndsWith("ErrPacketTooLarge") => rp'.pc = "body"
      ]_vars

\* After a delivered frame ReadPacketNoCopy rejected a header of 16 MiB + 1
\* and the offset still points at that header.
C21_Witness ==
    /\ Len(got) = 2
    /\ "ID" \in DOMAIN got[1]
    /\ got[2] = [err |-> "ErrPacketTooLarge"]
    /\ rp.pc = "idle"
    /\ rp.fn = "ReadPacketNoCopy"
    /\ Available(pr) >= HeaderSize
    /\ Uint32(pr.buf, pr.offset) = 16777217

\* C22: a call ends with io.EOF only when the stream has ended and no
\* unconsumed byte is buffered; a call that meets the end of the stream
\* with unconsumed bytes buffered ends with ErrUnexpectedEOF, and
\* ErrUnexpectedEOF is not reported on a clean end.
C22_EndOfStream ==
    [][ /\ EndsWith("EOF") => wire' = <<>> /\ Available(pr') = 0
        /\ EndsWith("ErrUnexpectedEOF") => wire' = <<>> /\ Available(pr') > 0
      ]_vars

(***************************************************************************)
(* Claims about the codec primitives.                                      *)
(***************************************************************************)
\* v < 2^bits for a uint32 v in two halves
Below(v, bits) ==
    IF bits >= 32 THEN TRUE
    ELSE IF bits >= 16 THEN v.hi < 2^(bits - 16)
    ELSE v.hi = 0 /\ v.lo < 2^bits

\* C23: ReadVarInt on WriteVarInt(v), whatever bytes follow, returns v and
\* VarIntSize(v) with no error; WriteVarInt(v) has VarIntSize(v) bytes, which
\* is between 1 and 5 and is the least number of 7-bit groups that hold v.
C23_VarIntRoundTrip ==
    (enc.kind = "varint" /\ ret.fn = "ReadVarInt")
        => /\ ret.err = "nil"
           /\ ret.value = enc.value
           /\ ret.n = VarIntSize(enc.value)
           /\ enc.size = VarIntSize(enc.value)
           /\ enc.size \in 1..5
           /\ Below(enc.value, 7 * enc.size)
           /\ enc.size > 1 => ~Below(enc.value, 7 * (enc.size - 1))

\* 2^32 - 1 was written in five bytes, bytes follow it, and it was read back.
C23_Witness ==
    /\ enc.kind = "varint"
    /\ enc.value = U32(65535, 65535)
    /\ Len(arg) > 5
    /\ ret.fn = "ReadVarInt"
    /\ ret.value = U32(65535, 65535)
    /\ ret.n = 5

\* The first k bytes of arg all have the continuation bit.
AllContinue(k) == \A i \in 1..k : arg[i] >= 128

\* C24: ReadVarInt fails with ErrVarIntTooLong when the first five bytes all
\* have the continuation bit, whatever follows them, and with
\* ErrUnexpectedEOF when the input has fewer than five bytes and all of them
\* have the continuation bit; it fails in no other case.
C24_VarIntErrors ==
    ret.fn = "ReadVarInt"
        => /\ (Len(arg) >= 5 /\ AllContinue(5)) <=> ret.err = "ErrVarIntTooLong"
           /\ (Len(arg) < 5 /\ AllContinue(Len(arg))) <=> ret.err = "ErrUnexpectedEOF"
           /\ ret.err \in {"nil", "ErrVarIntTooLong", "ErrUnexpectedEOF"}

\* Five bytes with the continuation bit and a sixth without it were read.
C24_Witness ==
    /\ ret.fn = "ReadVarInt"
    /\ Len(arg) = 6
    /\ AllContinue(5)
    /\ arg[6] < 128
    /\ ret.err = "ErrVarIntTooLong"

\* C25: ReadString on WriteString(s), for s of at most 256 bytes and
\* whatever bytes follow, returns s and the length of WriteString(s) with
\* no error.
C25_StringRoundTrip ==
    (enc.kind = "string" /\ Len(enc.value) <= 256 /\ ret.fn = "ReadString")
        => /\ ret.err = "nil"
           /\ ret.value = enc.value
           /\ ret.n = enc.size
           /\ enc.size = Len(enc.value) + (IF Len(enc.value) < 128 THEN 1 ELSE 2)

\* A string of 256 bytes was written, bytes follow it, and it was read back.
C25_Witness ==
    /\ enc.kind = "string"
    /\ Len(enc.value) = 256
    /\ Len(arg) > enc.size
    /\ ret.fn = "ReadString"
    /\ ret.value = enc.value
    /\ ret.n = 258

\* The length prefix of arg as ReadVarInt decodes it.
Prefix == ReadVarInt(arg)
PrefixAbove256 == Prefix.value.hi > 0 \/ Prefix.value.lo >= 257

\* C26: ReadString fails with ErrStringTooLong exactly when the length
\* prefix decodes to more than 256, whether or not the bytes after the
\* prefix are there; with a length of at most 256 and fewer bytes than that
\* after the prefix it fails with ErrUnexpectedEOF.
C26_StringErrors ==
    ret.fn = "ReadString"
        => /\ (Prefix.err = "nil" /\ PrefixAbove256) <=> ret.err = "ErrStringTooLong"
           /\ (Prefix.err = "nil" /\ ~PrefixAbove256
                  /\ Len(arg) < Prefix.n + Prefix.value.lo) => ret.err = "ErrUnexpectedEOF"
           /\ (Prefix.err = "nil" /\ ~PrefixAbove256
                  /\ Len(arg) >= Prefix.n + Prefix.value.lo) => ret.err = "nil"
           /\ Prefix.err # "nil" => ret.err = Prefix.err

\* The prefix says 257 and nothing follows it: ErrStringTooLong.
C26_Witness ==
    /\ ret.fn = "ReadString"
    /\ arg = <<129, 2>>
    /\ ret.err = "ErrStringTooLong"

\* The position of the first byte of arg without the continuation bit.
FirstStop == CHOOSE i \in 1..Len(arg) : arg[i] < 128 /\ \A j \in 1..(i - 1) : arg[j] >= 128

Width(fn) ==
    CASE fn = "ReadUUID" -> 16
      [] fn = "ReadUint8" -> 1
      [] fn = "ReadUint16LE" -> 2
      [] fn = "ReadUint32LE" -> 4
      [] fn = "ReadUint64LE" -> 8
      [] fn = "ReadInt32LE" -> 4
      [] fn = "ReadFloat32LE" -> 4
      [] fn = "ReadFloat16" -> 2

\* The number of bytes of arg that the value a reader decoded occupies.
Occupied ==
    CASE ret.fn = "ReadVarInt" -> FirstStop
      [] ret.fn = "ReadString" -> FirstStop + Len(ret.value)
      [] ret.fn = "ReadBytes" -> ret.want
      [] ret.fn = "ReadHostAddress" -> FirstStop + Len(ret.value.host) + 2
      [] OTHER -> Width(ret.fn)

PrimitiveReaders ==
    FixedReaders \cup {"ReadVarInt", "ReadString", "ReadBytes", "ReadHostAddress"}

\* C27: every reader reports 0 bytes consumed when it returns an error, and
\* on success the number of bytes its value occupies in the input, never
\* more than the input has.
C27_BytesConsumed ==
    ret.fn \in PrimitiveReaders
        => /\ ret.err # "nil" => ret.n = 0
           /\ ret.err = "nil" => ret.n = Occupied /\ ret.n <= Len(arg)

\* ReadHostAddress read a host of two bytes and the port: five bytes.
C27_Witness ==
    /\ ret.fn = "ReadHostAddress"
    /\ ret.err = "nil"
    /\ Len(ret.value.host) = 2
    /\ ret.n = 5

(***************************************************************************)
(* Claims about the packet parsers.                                        *)
(***************************************************************************)
\* C28: ParseConnect returns an error and no packet for a payload of fewer
\* than 82 bytes; for a payload of at least 82 bytes made of hash, client
\* type, UUID, three strings and referral data it returns the hash from
\* bytes 0..31, the client type from byte 32, the UUID from bytes 33..48,
\* the three strings and, as ReferralData, the bytes after the username.
C28_ParseConnect ==
    ret.fn = "ParseConnect"
        => /\ Len(arg) < 82 => ret.err = "ErrConnectTooShort" /\ ret.value.nil
           /\ (Len(arg) >= 82 /\ enc.kind = "connect")
                => /\ ret.err = "nil"
                   /\ ret.value.ProtocolHash = SubSeq(arg, 1, 32)
                   /\ ret.value.ClientType = arg[33]
                   /\ ret.value.UUID = SubSeq(arg, 34, 49)
                   /\ ret.value.Language = enc.Language
                   /\ ret.value.IdentityToken = enc.IdentityToken
                   /\ ret.value.Username = enc.Username
                   /\ ret.value.ReferralData = enc.ReferralData

\* A payload with three non-empty strings and referral data was parsed.
C28_Witness ==
    /\ ret.fn = "ParseConnect"
    /\ enc.kind = "connect"
    /\ ret.err = "nil"
    /\ Len(ret.value.Language) = 29
    /\ Len(ret.value.IdentityToken) = 128
    /\ Len(ret.value.Username) = 1
    /\ Len(ret.value.ReferralData) = 40

\* arg starts with a length prefix of at most 256 and that many bytes.
StartsWithString ==
    /\ Prefix.err = "nil"
    /\ ~PrefixAbove256
    /\ Len(arg) >= Prefix.n + Prefix.value.lo

\* C29: ParseDisconnect returns no error; the Reason is the string the
\* payload starts with when it starts with one, and empty otherwise, the
\* empty payload included.
C29_ParseDisconnect ==
    ret.fn = "ParseDisconnect"
        => /\ ret.err = "nil"
           /\ arg = <<>> => ret.value.Reason = <<>>
           /\ StartsWithString
                => ret.value.Reason = SubSeq(arg, Prefix.n + 1, Prefix.n + Prefix.value.lo)
           /\ ~StartsWithString => ret.value.Reason = <<>>

\* A payload whose length prefix asks for more bytes than there are was
\* parsed without an error.
C29_Witness ==
    /\ ret.fn = "ParseDisconnect"
    /\ Len(arg) > 0
    /\ Prefix.err = "nil"
    /\ ~StartsWithString
    /\ ret.err = "nil"
    /\ ret.value.Reason = <<>>

\* C30: IsCompressed is true exactly for data of at least 4 bytes that starts
\* with 28 B5 2F FD; for other data Decompress and DecompressTo return the
\* data with no error and do not call for the shared decoder.
C30_IsCompressed ==
    LET magic == Len(arg) >= 4 /\ SubSeq(arg, 1, 4) = <<40, 181, 47, 253>>
    IN  /\ ret.fn = "IsCompressed" => (ret.value <=> magic)
        /\ (ret.fn \in {"Decompress", "DecompressTo"} /\ ~magic)
             => ret.value = arg /\ ret.err = "nil" /\ ~ret.decoder
        /\ (ret.fn \in {"Decompress", "DecompressTo"} /\ magic) => ret.decoder

\* Data that differs from the magic in its fourth byte only went through
\* DecompressTo unchanged.
C30_Witness ==
    /\ ret.fn = "DecompressTo"
    /\ arg = <<40, 181, 47, 252>>
    /\ ret.value = arg
    /\ ~ret.decoder

(***************************************************************************)
(* Claims about the DCID of a datagram.                                    *)
(***************************************************************************)
\* Two lowercase hexadecimal digits of a byte, most significant first.
LowerHexDigit(d) ==
    IF d < 10 THEN <<"0", "1", "2", "3", "4", "5", "6", "7", "8", "9">>[d + 1]
    ELSE <<"a", "b", "c", "d", "e", "f">>[d - 9]

RECURSIVE LowerHex(_)
LowerHex(bytes) ==
    IF bytes = <<>> THEN ""
    ELSE LowerHexDigit(bytes[1] \div 16) \o LowerHexDigit(bytes[1] % 16)
             \o LowerHex(Tail(bytes))

\* C31: parseQUICDCID returns "" for a packet with bit 7 of byte 0 clear,
\* for a packet of fewer than 6 bytes, for a DCID length byte L = 0 and for
\* a packet of fewer than 6 + L bytes; otherwise it returns the lowercase
\* hex encoding of the L bytes after the length byte at offset 5.
C31_ParseQUICDCID ==
    ret.fn = "parseQUICDCID"
        => IF \/ Len(arg) < 6
              \/ arg[1] < 128
              \/ arg[6] = 0
              \/ Len(arg) < 6 + arg[6]
           THEN ret.value = ""
           ELSE ret.value = LowerHex(SubSeq(arg, 7, 6 + arg[6]))

\* A long-header packet that ends with its four-byte DCID and more gave the
\* DCID deadbeef.
C31_Witness ==
    /\ ret.fn = "parseQUICDCID"
    /\ arg = <<192, 0, 0, 0, 1, 4, 222, 173, 190, 239, 1, 2>>
    /\ ret.value = "deadbeef"

(***************************************************************************)
(* Claims about the Context.                                               *)
(***************************************************************************)
\* The Set calls made for the key the last read asked for.
SetsOf(key) == {i \in 1..Len(sets) : sets[i].key = key}
LastSetOf(key) == sets[CHOOSE i \in SetsOf(key) : \A j \in SetsOf(key) : j <= i].value
Holds(key, T) == SetsOf(key) # {} /\ LastSetOf(key).type = T

ZeroOf(T) ==
    CASE T = "string" -> "" [] T = "int" -> "0" [] T = "bool" -> "false" [] OTHER -> "nil"

\* C32: GetValue[T](ctx, key) returns (v, true) exactly when the value last
\* Set for key has type T, v being that value, and (zero of T, false) when
\* the key was never Set or holds another type; GetString, GetInt and
\* GetBool return the zero value for a missing key or another type.
C32_TypedReads ==
    /\ ret.fn = "GetValue"
         => IF Holds(ret.key, ret.T)
            THEN ret.ok /\ ret.value = LastSetOf(ret.key).val
            ELSE ~ret.ok /\ ret.value = ZeroOf(ret.T)
    /\ (ret.fn \in {"GetString", "GetInt", "GetBool"} /\ ~Holds(ret.key, ret.T))
         => ret.value = ZeroOf(ret.T)

\* A key was Set to a string and then to an int, and GetValue[string] found
\* nothing.
C32_Witness ==
    /\ ret.fn = "GetValue"
    /\ ret.T = "string"
    /\ Cardinality(SetsOf(ret.key)) >= 2
    /\ \E i \in SetsOf(ret.key) : sets[i].value = StringValue("B1")
    /\ LastSetOf(ret.key).type = "int"
    /\ ~ret.ok
    /\ ret.value = ""

(***************************************************************************)
(* Claims about the receive loop and the idle scan.                        *)
(***************************************************************************)
\* Sessions that exist after the step and did not before it.
NewSessions == {id \in SessionIds : sess[id].state = "none" /\ sess'[id].state # "none"}

\* C33: a session is created only by an Initial that decrypts and parses and
\* whose key has no session; a datagram of another class with no session,
\* and an Initial that does not decrypt, leave the sessions as they are: no
\* session is made and no hook is invoked.
C33_SessionCreation ==
    [][ /\ NewSessions # {}
          => /\ recv'.outcome = "created"
             /\ recv'.kind = "Initial"
             /\ recv'.decrypts
             /\ \A id \in SessionIds :
                   ~(sess[id].state = "live" /\ sess[id].key = recv'.key)
        /\ ( /\ recv' # recv
             /\ \A id \in SessionIds :
                   ~(sess[id].state = "live" /\ sess[id].key = recv'.key)
             /\ recv'.kind # "Initial" \/ ~recv'.decrypts )
          => sess' = sess
      ]_vars

\* An Initial that did not decrypt was dropped for a key whose earlier
\* session is closed, while another session lives.
C33_Witness ==
    /\ recv.outcome = "dropped"
    /\ recv.kind = "Initial"
    /\ ~recv.decrypts
    /\ \E id \in SessionIds : sess[id].state = "closed" /\ sess[id].key = recv.key
    /\ \E id \in SessionIds : sess[id].state = "live" /\ sess[id].key # recv.key

\* C34: a live session whose last activity is more than IdleTimeout ago is
\* eventually torn down, unless a datagram makes it active again; and the
\* scan tears down no session whose last activity is at most IdleTimeout ago.
C34_IdleEviction ==
    /\ \A id \in SessionIds :
          (sess[id].state = "live" /\ now - lastActivity[id] > IdleTimeout)
            ~> (sess[id].state = "closed" \/ now - lastActivity[id] <= IdleTimeout)
    /\ [][ \A id \in SessionIds :
             (sess[id].state = "live" /\ sess'[id].state = "closed"
                 /\ sess'[id].cause = "idle")
               => /\ now - lastActivity[id] > IdleTimeout
                  /\ \A p \in 1..Len(handlers) :
                        Count(sess'[id].log, Ev("OnDisconnect", p)) = 1
         ]_vars

\* The scan tore down one session two ticks after its last datagram and
\* left another, one tick after its last datagram, alive.
C34_Witness ==
    \E a, b \in SessionIds :
        /\ sess[a].state = "closed" /\ sess[a].cause = "idle"
        /\ lastActivity[a] = now - (IdleTimeout + 1)
        /\ sess[b].state = "live"
        /\ lastActivity[b] = now - IdleTimeout

(***************************************************************************)
(* Claims about Shutdown and the connection tasks.                         *)
(***************************************************************************)
\* C35: Shutdown closes every session, also a session that a
\* handleConnection stores after Shutdown has gone through the table: a
\* session that enters the table when the Range of Shutdown has returned
\* has its Close called (nothing but that Range calls Close, so it is
\* called by then or never).
C35_LateSessionClosed ==
    [][\A s \in Conns :
          (Leaves(s, "store") /\ shut.pc \in {"ranged", "waiting", "returned"})
          => task[s].sid \in closedSessions']_vars

\* Shutdown waits while a session that was stored after the Range, and so
\* was not closed, is bridging.
C35_Witness ==
    /\ shut.pc = "waiting"
    /\ ~shut.loop
    /\ \E s \in Conns :
          /\ task[s].pc = "bridge"
          /\ task[s].sid \in sessions
          /\ task[s].sid \notin closedSessions

(***************************************************************************)
(* Claims about the reader's buffer.                                       *)
(***************************************************************************)
\* C36: the buffer of a PacketReader made with a size of at most
\* MaxPacketSize + HeaderSize never gets longer than MaxPacketSize +
\* HeaderSize, whatever frames with a length field of at most MaxPacketSize
\* it reads.
C36_BufferBound ==
    pr.size <= MaxPacketSize + HeaderSize

\* The header of a frame of MaxPacketSize bytes was read and the buffer was
\* grown for the frame.
C36_Witness ==
    /\ rp.pc = "body"
    /\ rp.n = MaxPacketSize + HeaderSize
    /\ pr.size >= rp.n

\* The complete frames a byte stream starts with, in order.
RECURSIVE FramesIn(_)
FramesIn(bytes) ==
    IF Len(bytes) < 8 THEN <<>>
    ELSE LET length == Uint32(bytes, 0)
         IN  IF length > MaxPacketSize \/ Len(bytes) < 8 + length THEN <<>>
             ELSE <<[ID |-> Uint32(bytes, 4), Data |-> SubSeq(bytes, 9, 8 + length)]>>
                      \o FramesIn(SubSeq(bytes, 9 + length, Len(bytes)))

\* The last call returned the error e.
LastReturned(e) == got # <<>> /\ got[Len(got)] = [err |-> e]

\* The packets the calls returned, errors left out.
Delivered == SelectSeq(got, LAMBDA e : "err" \notin DOMAIN e)

\* C37: when a call reports io.EOF, every complete frame of the stream has
\* been returned by an earlier call, also when a Read handed over the last
\* bytes of a frame together with io.EOF.
C37_NoFrameLost ==
    LastReturned("EOF") => Delivered = FramesIn(sent)

\* Both frames of a stream were returned and the next call reported io.EOF.
C37_Witness ==
    /\ LastReturned("EOF")
    /\ Len(Delivered) = 2
    /\ Delivered = FramesIn(sent)

(***************************************************************************)
(* Claims about the tracker and the registry across connections.           *)
(***************************************************************************)
\* handleConnection of connection t is past its tracker.Delete, or returned
\* before it because it found no DCID or no backend.
PastTracker(t) ==
    task[t].pc \in {"consume", "dial", "select", "count", "store", "bridge", "done"}

\* C38: the DCID handleConnection gets from the tracker for the remote
\* address of an accepted connection is the DCID of that connection's first
\* packet, also when the address carried an earlier connection whose
\* handleConnection has deleted the address's entry: what later packets of
\* the earlier connection latch is not matched against the new connection.
C38_LatchedDcidIsOwn ==
    [][ \A s \in Conns :
          ( /\ task[s].pc = "getdcid"
            /\ task'[s].pc = "load"
            /\ conn[s].phase = "continued"
            /\ \A t \in Conns \ {s} : PastTracker(t) )
            => task'[s].dcid = parseQUICDCID(conn[s].InitialPacket.bytes)
      ]_vars

\* The tracker gave a connection the DCID of its own first packet on an
\* address that an earlier connection, now closed, had used.
C38_Witness ==
    \E s, t \in Conns :
        /\ s # t
        /\ conn[t].phase = "closed"
        /\ task[t].pc \in {"done", "bridge", "store", "count", "select", "dial"}
        /\ task[s].pc = "load"
        /\ conn[s].phase = "continued"
        /\ task[s].dcid = parseQUICDCID(conn[s].InitialPacket.bytes)

\* C39: sessions that share a DCID do not interfere in the terminator:
\* OnDisconnect of one registered session removes only that session's own
\* registration, so an entry that another, still pending session
\* registered stays in the registry with its backend.
C39_DisconnectKeepsOthers ==
    [][ \A s \in Conns :
          (conn[s].phase = "continued" /\ conn'[s].phase = "closed")
            => \A d \in DOMAIN backends :
                 (owner[d] # s /\ conn[owner[d]].phase = "continued")
                   => (d \in DOMAIN backends' /\ backends'[d] = backends[d])
      ]_vars

\* A registered session has disconnected and the entry another pending
\* session registered is still in the registry.
C39_Witness ==
    \E s, t \in Conns :
        /\ s # t
        /\ conn[s].phase = "closed"
        /\ conn[s].result.Action = Continue
        /\ conn[t].phase = "continued"
        /\ \E d \in DOMAIN backends : owner[d] = t

(***************************************************************************)
(* Claims about what ReadVarInt accepts.                                   *)
(***************************************************************************)
\* The integer that the 7-bit little-endian groups of data[1..n] encode, in
\* 16-bit limbs: top holds the bits from 2^32 on.  The groups do not
\* overlap, so the limbs add without carry.
RECURSIVE GroupValue(_, _)
GroupValue(data, n) ==
    IF n = 0 THEN [top |-> 0, hi |-> 0, lo |-> 0]
    ELSE LET g == data[n] % 128
             s == 7 * (n - 1)
             x == IF s >= 16 THEN g * 2^(s - 16) ELSE g * 2^s
             rest == GroupValue(data, n - 1)
         IN  IF s >= 16
             THEN [top |-> rest.top + (x \div 65536),
                   hi  |-> rest.hi + (x % 65536),
                   lo  |-> rest.lo]
             ELSE [top |-> rest.top,
                   hi  |-> rest.hi + (x \div 65536),
                   lo  |-> rest.lo + (x % 65536)]

\* C40: every byte sequence ReadVarInt accepts decodes to exactly the
\* integer its 7-bit little-endian groups encode; an encoding whose groups
\* encode 2^32 or more (five bytes, the fifth above 0x0F) is not accepted
\* with a truncated result.
C40_AcceptedIsExact ==
    (ret.fn = "ReadVarInt" /\ ret.err = "nil")
        => LET e == GroupValue(arg, ret.n)
           IN  /\ e.top = 0
               /\ ret.value = U32(e.hi, e.lo)

\* A five-byte encoding of a value below 2^32 was accepted and decoded to
\* the value its groups encode.
C40_Witness ==
    /\ ret.fn = "ReadVarInt"
    /\ ret.err = "nil"
    /\ ret.n = 5
    /\ arg[5] \in 1..15
    /\ GroupValue(arg, 5).top = 0
    /\ ret.value = U32(GroupValue(arg, 5).hi, GroupValue(arg, 5).lo)

====
